---- MODULE Spec2Model ----
(***************************************************************************)
(* SheetBridge: CSV upload, schema inference and transactional commit.     *)
(*                                                                         *)
(* Text is modelled as a sequence of one-character strings, so that the    *)
(* parsing, trimming and formatting done by the Go code are computed and   *)
(* not assumed.  The database is PostgreSQL behind database/sql: a         *)
(* committed catalog `db`, one transaction per request with a private      *)
(* write set, and table-level locks held until the transaction ends.       *)
(***************************************************************************)
EXTENDS Integers, Sequences, FiniteSets, TLC

\* ------------------------------------------------------------------ text

Digits == {"0", "1", "2", "3", "4", "5", "6", "7", "8", "9"}

DigitVal(c) ==
    CASE c = "0" -> 0 [] c = "1" -> 1 [] c = "2" -> 2 [] c = "3" -> 3
      [] c = "4" -> 4 [] c = "5" -> 5 [] c = "6" -> 6 [] c = "7" -> 7
      [] c = "8" -> 8 [] c = "9" -> 9

IsDigitAt(s, i) == i >= 1 /\ i <= Len(s) /\ s[i] \in Digits

AllDigits(s) == \A i \in 1..Len(s) : s[i] \in Digits

\* unicode.IsSpace restricted to the ASCII characters of the model's alphabet
IsSpace(c) == c \in {" ", "\t", "\n", "\r"}

UpperToLower ==
    [c \in {"A","B","C","D","E","F","G","H","I","J","K","L","M",
            "N","O","P","Q","R","S","T","U","V","W","X","Y","Z"} |->
        CASE c = "A" -> "a" [] c = "B" -> "b" [] c = "C" -> "c" [] c = "D" -> "d"
          [] c = "E" -> "e" [] c = "F" -> "f" [] c = "G" -> "g" [] c = "H" -> "h"
          [] c = "I" -> "i" [] c = "J" -> "j" [] c = "K" -> "k" [] c = "L" -> "l"
          [] c = "M" -> "m" [] c = "N" -> "n" [] c = "O" -> "o" [] c = "P" -> "p"
          [] c = "Q" -> "q" [] c = "R" -> "r" [] c = "S" -> "s" [] c = "T" -> "t"
          [] c = "U" -> "u" [] c = "V" -> "v" [] c = "W" -> "w" [] c = "X" -> "x"
          [] c = "Y" -> "y" [] c = "Z" -> "z"]

LowerChar(c) == IF c \in DOMAIN UpperToLower THEN UpperToLower[c] ELSE c

\* strings.ToLower / strings.ToUpper on ASCII text
ToLower(s) == [i \in 1..Len(s) |-> LowerChar(s[i])]

UpperChar(c) ==
    IF \E u \in DOMAIN UpperToLower : UpperToLower[u] = c
    THEN CHOOSE u \in DOMAIN UpperToLower : UpperToLower[u] = c
    ELSE c

ToUpper(s) == [i \in 1..Len(s) |-> UpperChar(s[i])]

RECURSIVE TrimLeftSpace(_)
TrimLeftSpace(s) ==
    IF s # <<>> /\ IsSpace(Head(s)) THEN TrimLeftSpace(Tail(s)) ELSE s

RECURSIVE TrimRightSpace(_)
TrimRightSpace(s) ==
    IF s # <<>> /\ IsSpace(s[Len(s)])
    THEN TrimRightSpace(SubSeq(s, 1, Len(s) - 1))
    ELSE s

\* strings.TrimSpace
TrimSpace(s) == TrimRightSpace(TrimLeftSpace(s))

HasPrefix(s, p) == Len(s) >= Len(p) /\ SubSeq(s, 1, Len(p)) = p

Drop(s, n) == SubSeq(s, n + 1, Len(s))

\* ------------------------------------------------------- strconv.ParseInt

RECURSIVE StripZeros(_)
StripZeros(d) ==
    IF Len(d) > 1 /\ Head(d) = "0" THEN StripZeros(Tail(d)) ELSE d

\* d <= m for two digit strings of the same length
RECURSIVE DigitsLE(_, _)
DigitsLE(d, m) ==
    IF d = <<>> THEN TRUE
    ELSE IF DigitVal(Head(d)) < DigitVal(Head(m)) THEN TRUE
    ELSE IF DigitVal(Head(d)) > DigitVal(Head(m)) THEN FALSE
    ELSE DigitsLE(Tail(d), Tail(m))

\* the magnitude d (digits) is at most the magnitude m (digits)
MagnitudeLE(d, m) ==
    LET a == StripZeros(d)
        b == StripZeros(m)
    IN  Len(a) < Len(b) \/ (Len(a) = Len(b) /\ DigitsLE(a, b))

MaxInt64Digits ==
    <<"9","2","2","3","3","7","2","0","3","6","8","5","4","7","7","5","8","0","7">>

MinInt64Digits ==
    <<"9","2","2","3","3","7","2","0","3","6","8","5","4","7","7","5","8","0","8">>

MaxInt32Digits == <<"2","1","4","7","4","8","3","6","4","7">>

MinInt32Digits == <<"2","1","4","7","4","8","3","6","4","8">>

IntNegative(s) == s # <<>> /\ Head(s) = "-"

IntMagnitude(s) == IF s # <<>> /\ Head(s) \in {"+", "-"} THEN Tail(s) ELSE s

\* the syntax strconv.ParseInt(s, 10, 64) accepts: an optional sign and one
\* or more decimal digits (base 10 admits no underscores and no prefix)
IntSyntax(s) == IntMagnitude(s) # <<>> /\ AllDigits(IntMagnitude(s))

\* strconv.ParseInt(s, 10, 64) returns a nil error
ParseIntOK(s) ==
    /\ IntSyntax(s)
    /\ MagnitudeLE(IntMagnitude(s),
                   IF IntNegative(s) THEN MinInt64Digits ELSE MaxInt64Digits)

\* the int64 it returns, as a canonical signed digit string
ParseIntValue(s) ==
    LET m == StripZeros(IntMagnitude(s))
    IN  IF IntNegative(s) /\ m # <<"0">> THEN <<"-">> \o m ELSE m

\* an int64 value (canonical digit string) lies in the int32 range
FitsInt32(v) ==
    MagnitudeLE(IntMagnitude(v),
                IF IntNegative(v) THEN MinInt32Digits ELSE MaxInt32Digits)

\* ----------------------------------------------------- strconv.ParseFloat

RECURSIVE SkipDigits(_)
SkipDigits(s) == IF s # <<>> /\ Head(s) \in Digits THEN SkipDigits(Tail(s)) ELSE s

\* strconv.special: "inf", "infinity" (optionally signed) and "nan", any case
FloatSpecial(s) ==
    LET l == ToLower(s)
        u == IF l # <<>> /\ Head(l) \in {"+", "-"} THEN Tail(l) ELSE l
    IN  \/ u = <<"i","n","f">>
        \/ u = <<"i","n","f","i","n","i","t","y">>
        \/ l = <<"n","a","n">>

FloatUnsigned(s) == IF s # <<>> /\ Head(s) \in {"+", "-"} THEN Tail(s) ELSE s

HexLetters == {"a", "b", "c", "d", "e", "f"}

IsHexDigit(c) == c \in Digits \/ LowerChar(c) \in HexLetters

HexVal(c) ==
    IF c \in Digits THEN DigitVal(c)
    ELSE CASE LowerChar(c) = "a" -> 10 [] LowerChar(c) = "b" -> 11
           [] LowerChar(c) = "c" -> 12 [] LowerChar(c) = "d" -> 13
           [] LowerChar(c) = "e" -> 14 [] LowerChar(c) = "f" -> 15

\* strconv.underscoreOK: an underscore may only separate two digits, the
\* base prefix counting as a digit
underscoreOK(s) ==
    LET u      == FloatUnsigned(s)
        prefix == Len(u) >= 2 /\ u[1] = "0" /\ LowerChar(u[2]) \in {"b", "o", "x"}
        hex    == prefix /\ LowerChar(u[2]) = "x"
        first  == IF prefix THEN 3 ELSE 1
        digit(k) == u[k] \in Digits \/ (hex /\ LowerChar(u[k]) \in HexLetters)
    IN  \A k \in first..Len(u) :
            u[k] = "_" =>
                /\ IF k = first THEN prefix ELSE digit(k - 1)
                /\ k < Len(u) /\ digit(k + 1)

StripUnderscores(s) == SelectSeq(s, LAMBDA c : c # "_")

\* the exponent readFloat accumulates: it stops growing once it has reached
\* 10000, which is beyond every finite float64
RECURSIVE ExponentValue(_, _)
ExponentValue(d, e) ==
    IF d = <<>> THEN e
    ELSE ExponentValue(Tail(d), IF e < 10000 THEN e * 10 + DigitVal(Head(d)) ELSE e)

\* the exponent part "e[+-]ddd" ("p[+-]ddd" of a hexadecimal float), or nothing
FloatExponentOK(r, expChar) ==
    \/ r = <<>>
    \/ /\ LowerChar(Head(r)) = expChar
       /\ LET y == FloatUnsigned(Tail(r))
          IN  y # <<>> /\ AllDigits(y)

\* the signed value of that exponent, 0 when there is none
FloatExponent(r) ==
    IF r = <<>> THEN 0
    ELSE LET x == Tail(r)
             e == ExponentValue(FloatUnsigned(x), 0)
         IN  IF x # <<>> /\ Head(x) = "-" THEN 0 - e ELSE e

\* the decimal digits of 2^1024 - 2^970, the least magnitude that rounds to
\* an infinite float64 (trailing zeros left out): the value is 0.d1d2... * 10^309
FloatOverflowDigits ==
    <<
       "1","7","9","7","6","9","3","1","3","4","8","6","2","3","1","5","8","0","7",
       "9","3","7","2","8","9","7","1","4","0","5","3","0","3","4","1","5","0","7",
       "9","9","3","4","1","3","2","7","1","0","0","3","7","8","2","6","9","3","6",
       "1","7","3","7","7","8","9","8","0","4","4","4","9","6","8","2","9","2","7",
       "6","4","7","5","0","9","4","6","6","4","9","0","1","7","9","7","7","5","8",
       "7","2","0","7","0","9","6","3","3","0","2","8","6","4","1","6","6","9","2",
       "8","8","7","9","1","0","9","4","6","5","5","5","5","4","7","8","5","1","9",
       "4","0","4","0","2","6","3","0","6","5","7","4","8","8","6","7","1","5","0",
       "5","8","2","0","6","8","1","9","0","8","9","0","2","0","0","0","7","0","8",
       "3","8","3","6","7","6","2","7","3","8","5","4","8","4","5","8","1","7","7",
       "1","1","5","3","1","7","6","4","4","7","5","7","3","0","2","7","0","0","6",
       "9","8","5","5","5","7","1","3","6","6","9","5","9","6","2","2","8","4","2",
       "9","1","4","8","1","9","8","6","0","8","3","4","9","3","6","4","7","5","2",
       "9","2","7","1","9","0","7","4","1","6","8","4","4","4","3","6","5","5","1",
       "0","7","0","4","3","4","2","7","1","1","5","5","9","6","9","9","5","0","8",
       "0","9","3","0","4","2","8","8","0","1","7","7","9","0","4","1","7","4","4",
       "9","7","7","9","2" >>

\* the digits d (read as the fraction 0.d) are at least the fraction 0.m
DigitsGE(d, m) ==
    LET n      == IF Len(d) > Len(m) THEN Len(d) ELSE Len(m)
        at(x, i) == IF i <= Len(x) THEN DigitVal(x[i]) ELSE 0
        diff   == {i \in 1..n : at(d, i) # at(m, i)}
    IN  \/ diff = {}
        \/ LET i == CHOOSE j \in diff : \A k \in diff : j <= k
           IN  at(d, i) > at(m, i)

RECURSIVE StripLeadingZeros(_)
StripLeadingZeros(d) ==
    IF d # <<>> /\ Head(d) = "0" THEN StripLeadingZeros(Tail(d)) ELSE d

\* the decimal mantissa digits int.frac with the exponent e round to +-Inf
\* (strconv returns ErrRange); a value that underflows to zero is no error
DecimalOverflows(int, frac, e) ==
    LET all == int \o frac
        d   == StripLeadingZeros(all)
        dp  == Len(int) - (Len(all) - Len(d)) + e
    IN  /\ d # <<>>
        /\ \/ dp > 309
           \/ dp = 309 /\ DigitsGE(d, FloatOverflowDigits)

\* strconv.readFloat for base 10 and the conversion of the decimal: sign,
\* digits with at most one '.', at least one digit, an optional exponent,
\* and a value in the range of float64
FloatDecimal(s) ==
    LET u    == FloatUnsigned(s)
        a    == SkipDigits(u)
        ni   == Len(u) - Len(a)
        b    == IF a # <<>> /\ Head(a) = "." THEN Tail(a) ELSE a
        c    == SkipDigits(b)
        nf   == Len(b) - Len(c)
    IN  /\ ni + nf > 0
        /\ FloatExponentOK(c, "e")
        /\ ~DecimalOverflows(SubSeq(u, 1, ni), SubSeq(b, 1, nf), FloatExponent(c))

RECURSIVE SkipHexDigits(_)
SkipHexDigits(s) ==
    IF s # <<>> /\ IsHexDigit(Head(s)) THEN SkipHexDigits(Tail(s)) ELSE s

\* the bits of a sequence of hexadecimal digits, most significant first
RECURSIVE HexBits(_)
HexBits(d) ==
    IF d = <<>> THEN <<>>
    ELSE LET v == HexVal(Head(d))
         IN  << v \div 8, (v \div 4) % 2, (v \div 2) % 2, v % 2 >> \o HexBits(Tail(d))

RECURSIVE StripZeroBits(_)
StripZeroBits(b) ==
    IF b # <<>> /\ Head(b) = 0 THEN StripZeroBits(Tail(b)) ELSE b

\* strconv.atofHex: the hexadecimal mantissa int.frac scaled by 2^e rounds to
\* +-Inf: its leading bit lies above 2^1023, or at 2^1023 with the 53 bits of
\* the mantissa and the rounding bit after them all ones
HexOverflows(int, frac, e) ==
    LET b    == StripZeroBits(HexBits(int \o frac))
        top  == Len(b) - 1 - 4 * Len(frac) + e
    IN  /\ b # <<>>
        /\ \/ top > 1023
           \/ /\ top = 1023
              /\ Len(b) >= 54
              /\ \A i \in 1..54 : b[i] = 1

\* strconv.readFloat for base 16: sign, "0x", hexadecimal digits with at most
\* one '.', at least one digit, and the mandatory binary exponent
FloatHex(s) ==
    LET u    == FloatUnsigned(s)
        h    == Drop(u, 2)
        a    == SkipHexDigits(h)
        ni   == Len(h) - Len(a)
        b    == IF a # <<>> /\ Head(a) = "." THEN Tail(a) ELSE a
        c    == SkipHexDigits(b)
        nf   == Len(b) - Len(c)
    IN  /\ Len(u) > 2 /\ u[1] = "0" /\ LowerChar(u[2]) = "x"
        /\ ni + nf > 0
        /\ c # <<>> /\ FloatExponentOK(c, "p")
        /\ ~HexOverflows(SubSeq(h, 1, ni), SubSeq(b, 1, nf), FloatExponent(c))

\* strconv.ParseFloat(s, 64) returns a nil error: the special names, or a
\* decimal or hexadecimal float whose underscores separate digits and whose
\* value does not overflow float64
ParseFloatOK(s) ==
    \/ FloatSpecial(s)
    \/ /\ underscoreOK(s)
       /\ LET t == StripUnderscores(s) IN FloatDecimal(t) \/ FloatHex(t)

\* ------------------------------------------------------------ time.Parse
\* A layout is the sequence of chunks time.nextStdChunk cuts it into: the
\* names of the standard chunks, and every other character as a literal.

StdChunks ==
    {"stdLongYear", "stdZeroMonth", "stdNumMonth", "stdMonth", "stdZeroDay",
     "stdDay", "stdHour", "stdHour12", "stdZeroMinute", "stdZeroSecond",
     "stdPM", "stdISO8601ColonTZ", "stdFracSecond9"}

\* time.getnum: one or two digits (exactly two when fixed)
getnum(s, fixed) ==
    IF ~IsDigitAt(s, 1) THEN [ok |-> FALSE, n |-> 0, rest |-> s]
    ELSE IF ~IsDigitAt(s, 2)
         THEN IF fixed THEN [ok |-> FALSE, n |-> 0, rest |-> s]
              ELSE [ok |-> TRUE, n |-> DigitVal(s[1]), rest |-> Drop(s, 1)]
    ELSE [ok |-> TRUE, n |-> DigitVal(s[1]) * 10 + DigitVal(s[2]), rest |-> Drop(s, 2)]

shortMonthNames ==
    << <<"j","a","n">>, <<"f","e","b">>, <<"m","a","r">>, <<"a","p","r">>,
       <<"m","a","y">>, <<"j","u","n">>, <<"j","u","l">>, <<"a","u","g">>,
       <<"s","e","p">>, <<"o","c","t">>, <<"n","o","v">>, <<"d","e","c">> >>

\* time.lookup(shortMonthNames, value): the month whose name starts value
\* (ASCII case-insensitive), 0 when none does
lookupMonth(value) ==
    IF Len(value) >= 3 /\ \E i \in 1..12 : ToLower(SubSeq(value, 1, 3)) = shortMonthNames[i]
    THEN CHOOSE i \in 1..12 : ToLower(SubSeq(value, 1, 3)) = shortMonthNames[i]
    ELSE 0

isLeap(year) == year % 4 = 0 /\ (year % 100 # 0 \/ year % 400 = 0)

daysIn(month, year) ==
    IF month = 2 THEN (IF isLeap(year) THEN 29 ELSE 28)
    ELSE IF month \in {4, 6, 9, 11} THEN 30 ELSE 31

\* the fractional second ".ddd" (or ",ddd") that may follow the seconds
HasFraction(value) == Len(value) >= 2 /\ value[1] \in {".", ","} /\ IsDigitAt(value, 2)

SkipFraction(value) == IF HasFraction(value) THEN SkipDigits(Tail(value)) ELSE value

\* the zone "Z" or "+hh:mm" / "-hh:mm" of stdISO8601ColonTZ
ZoneOK(value) ==
    \/ Len(value) >= 1 /\ value[1] = "Z"
    \/ /\ Len(value) >= 6
       /\ value[4] = ":"
       /\ value[1] \in {"+", "-"}
       /\ getnum(SubSeq(value, 2, 3), TRUE).ok
       /\ getnum(SubSeq(value, 5, 6), TRUE).ok
       /\ getnum(SubSeq(value, 2, 3), TRUE).n <= 24
       /\ getnum(SubSeq(value, 5, 6), TRUE).n <= 60

SkipZone(value) == IF value[1] = "Z" THEN Drop(value, 1) ELSE Drop(value, 6)

\* the state of time.Parse: the fields read so far (month and day start at -1)
ParseStart ==
    [ok |-> TRUE, year |-> 0, month |-> -1, day |-> -1,
     hour |-> 0, min |-> 0, sec |-> 0, frac |-> <<>>]

ParseBad == [ParseStart EXCEPT !.ok = FALSE]

FractionDigits(value) ==
    IF HasFraction(value)
    THEN SubSeq(value, 2, Len(value) - Len(SkipDigits(Tail(value))))
    ELSE <<>>

\* time.cutspace: drops the leading U+0020 characters, and no other space
RECURSIVE cutspace(_)
cutspace(s) == IF s # <<>> /\ Head(s) = " " THEN cutspace(Tail(s)) ELSE s

\* time.Parse(layout, value): the fields of the time it returns, or ParseBad
\* when it returns an error
RECURSIVE TimeParse(_, _, _)
TimeParse(layout, value, st) ==
    IF layout = <<>>
    THEN LET month == IF st.month < 0 THEN 1 ELSE st.month
             day   == IF st.day < 0 THEN 1 ELSE st.day
         IN  IF value = <<>> /\ day >= 1 /\ day <= daysIn(month, st.year)
             THEN [st EXCEPT !.month = month, !.day = day]
             ELSE ParseBad
    ELSE
    LET ch == Head(layout)
        L  == Tail(layout)
    IN  CASE ch = "stdLongYear" ->
               IF Len(value) >= 4 /\ AllDigits(SubSeq(value, 1, 4))
               THEN TimeParse(L, Drop(value, 4),
                     [st EXCEPT !.year = DigitVal(value[1]) * 1000 + DigitVal(value[2]) * 100
                                         + DigitVal(value[3]) * 10 + DigitVal(value[4])])
               ELSE ParseBad
          [] ch \in {"stdZeroMonth", "stdNumMonth"} ->
               LET g == getnum(value, ch = "stdZeroMonth")
               IN  IF g.ok /\ g.n >= 1 /\ g.n <= 12
                   THEN TimeParse(L, g.rest, [st EXCEPT !.month = g.n])
                   ELSE ParseBad
          [] ch = "stdMonth" ->
               IF lookupMonth(value) # 0
               THEN TimeParse(L, Drop(value, 3), [st EXCEPT !.month = lookupMonth(value)])
               ELSE ParseBad
          [] ch \in {"stdZeroDay", "stdDay"} ->
               LET g == getnum(value, ch = "stdZeroDay")
               IN  IF g.ok THEN TimeParse(L, g.rest, [st EXCEPT !.day = g.n]) ELSE ParseBad
          [] ch = "stdHour" ->
               LET g == getnum(value, FALSE)
               IN  IF g.ok /\ g.n < 24
                   THEN TimeParse(L, g.rest, [st EXCEPT !.hour = g.n])
                   ELSE ParseBad
          [] ch = "stdHour12" ->
               LET g == getnum(value, FALSE)
               IN  IF g.ok /\ g.n <= 12
                   THEN TimeParse(L, g.rest, [st EXCEPT !.hour = g.n])
                   ELSE ParseBad
          [] ch = "stdZeroMinute" ->
               LET g == getnum(value, TRUE)
               IN  IF g.ok /\ g.n < 60
                   THEN TimeParse(L, g.rest, [st EXCEPT !.min = g.n])
                   ELSE ParseBad
          [] ch = "stdZeroSecond" ->
               LET g == getnum(value, TRUE)
               IN  IF ~(g.ok /\ g.n < 60) THEN ParseBad
                   ELSE IF L # <<>> /\ Head(L) = "stdFracSecond9"
                   THEN TimeParse(L, g.rest, [st EXCEPT !.sec = g.n])
                   ELSE TimeParse(L, SkipFraction(g.rest),
                                  [st EXCEPT !.sec = g.n, !.frac = FractionDigits(g.rest)])
          [] ch = "stdFracSecond9" ->
               TimeParse(L, SkipFraction(value), [st EXCEPT !.frac = FractionDigits(value)])
          [] ch = "stdPM" ->
               IF Len(value) >= 2 /\ SubSeq(value, 1, 2) \in {<<"P","M">>, <<"A","M">>}
               THEN TimeParse(L, Drop(value, 2),
                     [st EXCEPT !.hour =
                        IF value[1] = "P" /\ st.hour < 12 THEN st.hour + 12
                        ELSE IF value[1] = "A" /\ st.hour = 12 THEN 0
                        ELSE st.hour])
               ELSE ParseBad
          [] ch = "stdISO8601ColonTZ" ->
               IF ZoneOK(value) THEN TimeParse(L, SkipZone(value), st) ELSE ParseBad
          [] ch = " " ->
               IF value = <<>> \/ Head(value) = " "
               THEN TimeParse(cutspace(L), cutspace(value), st)
               ELSE ParseBad
          [] OTHER ->
               IF value # <<>> /\ Head(value) = ch
               THEN TimeParse(L, Tail(value), st)
               ELSE ParseBad

timeParse(layout, value) == TimeParse(layout, value, ParseStart)

timeParseOK(layout, value) == timeParse(layout, value).ok

\* the first layout of the list that parses value, as the code's loops try
\* them in order; <<>> when none does
RECURSIVE FirstLayout(_, _)
FirstLayout(layouts, value) ==
    IF layouts = <<>> THEN <<>>
    ELSE IF timeParseOK(Head(layouts), value) THEN Head(layouts)
    ELSE FirstLayout(Tail(layouts), value)

AnyLayout(layouts, value) == \E i \in 1..Len(layouts) : timeParseOK(layouts[i], value)

\* ------------------------------------------------------------ time.Format

DigitChar(n) == CHOOSE c \in Digits : DigitVal(c) = n

Pad2(n) == <<DigitChar(n \div 10), DigitChar(n % 10)>>

Pad4(n) == <<DigitChar(n \div 1000), DigitChar((n \div 100) % 10),
             DigitChar((n \div 10) % 10), DigitChar(n % 10)>>

RECURSIVE TrimRightZeros(_)
TrimRightZeros(d) ==
    IF d # <<>> /\ d[Len(d)] = "0" THEN TrimRightZeros(SubSeq(d, 1, Len(d) - 1)) ELSE d

\* t.Format("2006-01-02")
FormatDate(t) == Pad4(t.year) \o <<"-">> \o Pad2(t.month) \o <<"-">> \o Pad2(t.day)

\* t.Format("2006-01-02 15:04:05.999999"): at most six fractional digits,
\* trailing zeros and an empty fraction dropped
FormatTimestamp(t) ==
    LET f == TrimRightZeros(SubSeq(t.frac, 1, IF Len(t.frac) < 6 THEN Len(t.frac) ELSE 6))
    IN  FormatDate(t) \o <<" ">> \o Pad2(t.hour) \o <<":">> \o Pad2(t.min)
          \o <<":">> \o Pad2(t.sec) \o (IF f = <<>> THEN <<>> ELSE <<".">> \o f)

\* the layouts of the code, cut into chunks
LayoutISODate == <<"stdLongYear", "-", "stdZeroMonth", "-", "stdZeroDay">>
LayoutUSDate == <<"stdZeroMonth", "/", "stdZeroDay", "/", "stdLongYear">>
LayoutUSDateShort == <<"stdNumMonth", "/", "stdDay", "/", "stdLongYear">>
LayoutSlashDate == <<"stdLongYear", "/", "stdZeroMonth", "/", "stdZeroDay">>
LayoutMonDate == <<"stdMonth", " ", "stdDay", ",", " ", "stdLongYear">>
LayoutDayMonDate == <<"stdDay", "-", "stdMonth", "-", "stdLongYear">>
LayoutClock == <<"stdHour", ":", "stdZeroMinute", ":", "stdZeroSecond">>
LayoutRFC3339 == LayoutISODate \o <<"T">> \o LayoutClock \o <<"stdISO8601ColonTZ">>
LayoutRFC3339Nano ==
    LayoutISODate \o <<"T">> \o LayoutClock \o <<"stdFracSecond9", "stdISO8601ColonTZ">>
LayoutISODateTime == LayoutISODate \o <<" ">> \o LayoutClock
LayoutISODateTimeT == LayoutISODate \o <<"T">> \o LayoutClock
LayoutUSDateTime == LayoutUSDate \o <<" ">> \o LayoutClock
LayoutUSDateTimeShort == LayoutUSDateShort \o <<" ">> \o LayoutClock
LayoutMonDateTime == LayoutMonDate \o <<" ">> \o LayoutClock
LayoutMonDateTime12 ==
    LayoutMonDate \o <<" ", "stdHour12", ":", "stdZeroMinute", ":", "stdZeroSecond", " ", "stdPM">>
LayoutISODateMinute == LayoutISODate \o <<" ", "stdHour", ":", "stdZeroMinute">>
\* "01/02/2006 12:00": after the date, "1" is a month, "2" a day, ":00" literal
LayoutUSDateNoon == LayoutUSDate \o <<" ", "stdNumMonth", "stdDay", ":", "0", "0">>

\* --------------------------------------------------------- column types
\* the application type names, as the strings the code compares

TyINT == <<"I","N","T">>
TyINTEGER == <<"I","N","T","E","G","E","R">>
TyBIGINT == <<"B","I","G","I","N","T">>
TyDECIMAL == <<"D","E","C","I","M","A","L">>
TyNUMERIC == <<"N","U","M","E","R","I","C">>
TyREAL == <<"R","E","A","L">>
TyFLOAT == <<"F","L","O","A","T">>
TyDOUBLE == <<"D","O","U","B","L","E">>
TyDATE == <<"D","A","T","E">>
TyTIMESTAMP == <<"T","I","M","E","S","T","A","M","P">>
TyDATETIME == <<"D","A","T","E","T","I","M","E">>
TyBOOLEAN == <<"B","O","O","L","E","A","N">>
TyTEXT == <<"T","E","X","T">>

TyPgTimestamp == <<"T","I","M","E","S","T","A","M","P"," ","W","I","T","H","O","U","T"," ","T","I","M","E"," ","Z","O","N","E">>

\* the boolean tokens, lower case (InferSchemaFromPreview and InsertData)
TrueTokens == {<<"t","r","u","e">>, <<"1">>, <<"y","e","s">>, <<"t">>}

FalseTokens == {<<"f","a","l","s","e">>, <<"0">>, <<"n","o">>, <<"f">>}

\* repositories.mapToPostgresType
mapToPostgresType(userType) ==
    LET u == ToUpper(userType)
    IN  CASE u \in {TyINT, TyINTEGER} -> TyINTEGER
          [] u = TyBIGINT -> TyBIGINT
          [] u \in {TyDECIMAL, TyNUMERIC} -> TyNUMERIC
          [] u \in {TyREAL, TyFLOAT, TyDOUBLE} -> TyREAL
          [] u = TyDATE -> TyDATE
          [] u \in {TyTIMESTAMP, TyDATETIME} -> TyPgTimestamp
          [] u = TyBOOLEAN -> TyBOOLEAN
          [] OTHER -> TyTEXT

\* repositories.mapToAppType: the application type of a catalog data_type
mapToAppType(pgType) ==
    LET t == ToLower(TrimSpace(pgType))
    IN  CASE t \in {<<"i","n","t","e","g","e","r">>, <<"s","m","a","l","l","i","n","t">>,
                    <<"s","e","r","i","a","l">>,
                    <<"s","m","a","l","l","s","e","r","i","a","l">>} -> TyINTEGER
          [] t \in {<<"b","i","g","i","n","t">>,
                    <<"b","i","g","s","e","r","i","a","l">>} -> TyBIGINT
          [] t \in {<<"n","u","m","e","r","i","c">>, <<"d","e","c","i","m","a","l">>} -> TyNUMERIC
          [] t \in {<<"r","e","a","l">>,
                    <<"d","o","u","b","l","e"," ","p","r","e","c","i","s","i","o","n">>} -> TyREAL
          [] t = <<"b","o","o","l","e","a","n">> -> TyBOOLEAN
          [] t = <<"d","a","t","e">> -> TyDATE
          [] HasPrefix(t, <<"t","i","m","e","s","t","a","m","p">>) -> TyTIMESTAMP
          [] OTHER -> TyTEXT

\* ------------------------------------------------ InsertData: coercion

\* the layouts InsertData tries for a DATE column, in order
\* (time.RFC3339[:10] is "2006-01-02" again)
DateLayoutsInsert ==
    <<LayoutISODate, LayoutUSDate, LayoutSlashDate, LayoutMonDate, LayoutDayMonDate,
      LayoutISODate>>

\* the layouts InsertData tries for a TIMESTAMP column, in order
TimestampLayoutsInsert ==
    <<LayoutRFC3339, LayoutRFC3339Nano, LayoutISODateTime, LayoutRFC3339,
      LayoutISODateTimeT, LayoutUSDateTime, LayoutMonDateTime>>

\* the Go values handed to the statement, each written as text: nil, an int64
\* in decimal, a float64 as its source text, a bool as true or false
NullValue == [kind |-> "null", v |-> <<>>]

BoolTrue == <<"t","r","u","e">>

BoolFalse == <<"f","a","l","s","e">>

Converted(kind, v) == [err |-> FALSE, value |-> [kind |-> kind, v |-> v]]

ConvError == [err |-> TRUE, value |-> NullValue]

\* a conversion that hands an empty cell of a TEXT column on as a string
ConvertCellBlankText(declaredType, valStr) ==
    LET colType     == ToUpper(declaredType)
        cleanValStr == TrimSpace(valStr)
    IN  IF cleanValStr = <<>> /\ colType # TyTEXT
        THEN [err |-> FALSE, value |-> NullValue]
        ELSE CASE colType \in {TyINT, TyINTEGER, TyBIGINT} ->
                    IF ParseIntOK(cleanValStr)
                    THEN Converted("int64", ParseIntValue(cleanValStr))
                    ELSE ConvError
               [] colType \in {TyDECIMAL, TyNUMERIC, TyREAL, TyFLOAT, TyDOUBLE} ->
                    IF ParseFloatOK(cleanValStr)
                    THEN Converted("float64", cleanValStr)
                    ELSE ConvError
               [] colType = TyDATE ->
                    LET layout == FirstLayout(DateLayoutsInsert, cleanValStr)
                    IN  IF layout # <<>>
                        THEN Converted("string", FormatDate(timeParse(layout, cleanValStr)))
                        ELSE Converted("string", cleanValStr)
               [] colType \in {TyTIMESTAMP, TyDATETIME} ->
                    LET layout == FirstLayout(TimestampLayoutsInsert, cleanValStr)
                    IN  IF layout # <<>>
                        THEN Converted("string", FormatTimestamp(timeParse(layout, cleanValStr)))
                        ELSE Converted("string", cleanValStr)
               [] colType = TyBOOLEAN ->
                    LET lowerVal == ToLower(cleanValStr)
                    IN  IF lowerVal \in TrueTokens THEN Converted("bool", BoolTrue)
                        ELSE IF lowerVal \in FalseTokens THEN Converted("bool", BoolFalse)
                        ELSE ConvError
               [] OTHER -> Converted("string", valStr)

\* the body of InsertData's inner loop: the value handed to the statement for
\* one cell of a column of the declared type, or a conversion error
ConvertCell(declaredType, valStr) ==
    LET colType     == ToUpper(declaredType)
        cleanValStr == TrimSpace(valStr)
    IN  IF cleanValStr = <<>> THEN [err |-> FALSE, value |-> NullValue]
        ELSE CASE colType \in {TyINT, TyINTEGER, TyBIGINT} ->
                    IF ParseIntOK(cleanValStr)
                    THEN Converted("int64", ParseIntValue(cleanValStr))
                    ELSE ConvError
               [] colType \in {TyDECIMAL, TyNUMERIC, TyREAL, TyFLOAT, TyDOUBLE} ->
                    IF ParseFloatOK(cleanValStr)
                    THEN Converted("float64", cleanValStr)
                    ELSE ConvError
               [] colType = TyDATE ->
                    LET layout == FirstLayout(DateLayoutsInsert, cleanValStr)
                    IN  IF layout # <<>>
                        THEN Converted("string", FormatDate(timeParse(layout, cleanValStr)))
                        ELSE Converted("string", cleanValStr)
               [] colType \in {TyTIMESTAMP, TyDATETIME} ->
                    LET layout == FirstLayout(TimestampLayoutsInsert, cleanValStr)
                    IN  IF layout # <<>>
                        THEN Converted("string", FormatTimestamp(timeParse(layout, cleanValStr)))
                        ELSE Converted("string", cleanValStr)
               [] colType = TyBOOLEAN ->
                    LET lowerVal == ToLower(cleanValStr)
                    IN  IF lowerVal \in TrueTokens THEN Converted("bool", BoolTrue)
                        ELSE IF lowerVal \in FalseTokens THEN Converted("bool", BoolFalse)
                        ELSE ConvError
               [] OTHER -> Converted("string", valStr)

\* the values of one record, cell by cell; the first conversion error stops it
RECURSIVE ConvertRecord(_, _, _)
ConvertRecord(columnDefs, record, j) ==
    IF j > Len(record) THEN [err |-> FALSE, col |-> 0, values |-> <<>>]
    ELSE LET c == ConvertCell(columnDefs[j].type, record[j])
         IN  IF c.err THEN [err |-> TRUE, col |-> j, values |-> <<>>]
             ELSE LET r == ConvertRecord(columnDefs, record, j + 1)
                  IN  IF r.err THEN r ELSE [r EXCEPT !.values = <<c.value>> \o @]

\* ------------------------------------- InferSchemaFromPreview: inference

\* the layouts InferSchemaFromPreview tries for a timestamp, in order
tsLayouts ==
    <<LayoutRFC3339, LayoutISODateTime, LayoutISODateTimeT, LayoutRFC3339,
      LayoutUSDateTime, LayoutUSDateTimeShort, LayoutMonDateTime12, LayoutISODateMinute,
      LayoutUSDateNoon>>

\* the layouts InferSchemaFromPreview tries for a date, in order
dateLayouts ==
    <<LayoutISODate, LayoutUSDate, LayoutUSDateShort, LayoutSlashDate, LayoutMonDate,
      LayoutDayMonDate>>

InferStart ==
    [isStillBoolean |-> TRUE, isStillInteger |-> TRUE, isStillReal |-> TRUE,
     isStillDate |-> TRUE, isStillTimestamp |-> TRUE,
     hasAtLeastOneNonEmptyValueInColumn |-> FALSE]

\* a row loop in which the last non-empty cell alone decides the flags
InferStepLastWins(f, row, colIdx) ==
    IF colIdx > Len(row) THEN f
    ELSE LET valStr == TrimSpace(row[colIdx])
         IN  IF valStr = <<>> THEN f
             ELSE [isStillBoolean |-> ToLower(valStr) \in (TrueTokens \cup FalseTokens),
                   isStillInteger |-> ParseIntOK(valStr),
                   isStillReal |-> ParseFloatOK(valStr),
                   isStillTimestamp |-> AnyLayout(tsLayouts, valStr),
                   isStillDate |-> AnyLayout(dateLayouts, valStr),
                   hasAtLeastOneNonEmptyValueInColumn |-> TRUE]

\* a row loop in which an empty cell disqualifies every candidate
InferStepEmptyDisqualifies(f, row, colIdx) ==
    IF colIdx > Len(row) THEN f
    ELSE LET valStr == TrimSpace(row[colIdx])
         IN  [isStillBoolean |->
                 f.isStillBoolean /\ ToLower(valStr) \in (TrueTokens \cup FalseTokens),
              isStillInteger |-> f.isStillInteger /\ ParseIntOK(valStr),
              isStillReal |-> f.isStillReal /\ ParseFloatOK(valStr),
              isStillTimestamp |-> f.isStillTimestamp /\ AnyLayout(tsLayouts, valStr),
              isStillDate |-> f.isStillDate /\ AnyLayout(dateLayouts, valStr),
              hasAtLeastOneNonEmptyValueInColumn |-> TRUE]

\* one pass of the row loop for column colIdx
InferStep(f, row, colIdx) ==
    IF colIdx > Len(row) THEN f
    ELSE LET valStr == TrimSpace(row[colIdx])
         IN  IF valStr = <<>> THEN f
             ELSE [isStillBoolean |->
                      f.isStillBoolean /\ ToLower(valStr) \in (TrueTokens \cup FalseTokens),
                   isStillInteger |-> f.isStillInteger /\ ParseIntOK(valStr),
                   isStillReal |-> f.isStillReal /\ ParseFloatOK(valStr),
                   isStillTimestamp |-> f.isStillTimestamp /\ AnyLayout(tsLayouts, valStr),
                   isStillDate |-> f.isStillDate /\ AnyLayout(dateLayouts, valStr),
                   hasAtLeastOneNonEmptyValueInColumn |-> TRUE]

RECURSIVE InferFlags(_, _, _)
InferFlags(f, rows, colIdx) ==
    IF rows = <<>> THEN f
    ELSE InferFlags(InferStep(f, Head(rows), colIdx), Tail(rows), colIdx)

\* a type choice that prefers REAL to INTEGER
InferredTypeRealFirst(f) ==
    IF ~f.hasAtLeastOneNonEmptyValueInColumn THEN TyTEXT
    ELSE IF f.isStillBoolean THEN TyBOOLEAN
    ELSE IF f.isStillReal THEN TyREAL
    ELSE IF f.isStillInteger THEN TyINTEGER
    ELSE IF f.isStillTimestamp THEN TyTIMESTAMP
    ELSE IF f.isStillDate THEN TyDATE
    ELSE TyTEXT

\* the type chosen from what is still true, in the code's order of preference
InferredType(f) ==
    IF ~f.hasAtLeastOneNonEmptyValueInColumn THEN TyTEXT
    ELSE IF f.isStillBoolean THEN TyBOOLEAN
    ELSE IF f.isStillInteger THEN TyINTEGER
    ELSE IF f.isStillReal THEN TyREAL
    ELSE IF f.isStillTimestamp THEN TyTIMESTAMP
    ELSE IF f.isStillDate THEN TyDATE
    ELSE TyTEXT

\* services.CSVService.InferSchemaFromPreview
InferSchemaFromPreview(headers, previewRows) ==
    [colIdx \in 1..Len(headers) |->
        [name |-> headers[colIdx],
         type |-> InferredType(InferFlags(InferStart, previewRows, colIdx))]]

\* ------------------------------------------------------ SanitizeSQLName

MaxIdentLen == 63

LowerLetters ==
    {"a","b","c","d","e","f","g","h","i","j","k","l","m",
     "n","o","p","q","r","s","t","u","v","w","x","y","z"}

\* the characters nonAlphanumericRegex keeps
IsWordChar(c) == c \in LowerLetters \/ c \in DOMAIN UpperToLower \/ c \in Digits \/ c = "_"

\* strings.ReplaceAll of "-", " ", "." and "/" by "_"
ReplaceSeparators(s) ==
    [i \in 1..Len(s) |-> IF s[i] \in {"-", " ", ".", "/"} THEN "_" ELSE s[i]]

\* nonAlphanumericRegex.ReplaceAllString(name, "")
RECURSIVE StripNonWord(_)
StripNonWord(s) ==
    IF s = <<>> THEN <<>>
    ELSE IF IsWordChar(Head(s)) THEN <<Head(s)>> \o StripNonWord(Tail(s))
    ELSE StripNonWord(Tail(s))

\* multipleUnderscoreRegex.ReplaceAllString(name, "_")
RECURSIVE CollapseUnderscores(_)
CollapseUnderscores(s) ==
    IF Len(s) < 2 THEN s
    ELSE IF s[1] = "_" /\ s[2] = "_" THEN CollapseUnderscores(Tail(s))
    ELSE <<Head(s)>> \o CollapseUnderscores(Tail(s))

RECURSIVE TrimLeftUnderscore(_)
TrimLeftUnderscore(s) ==
    IF s # <<>> /\ Head(s) = "_" THEN TrimLeftUnderscore(Tail(s)) ELSE s

RECURSIVE TrimRightUnderscore(_)
TrimRightUnderscore(s) ==
    IF s # <<>> /\ s[Len(s)] = "_"
    THEN TrimRightUnderscore(SubSeq(s, 1, Len(s) - 1))
    ELSE s

UnnamedIdentifier == <<"u","n","n","a","m","e","d","_","i","d","e","n","t","i","f","i","e","r">>

SanatizedEmptyIdentifier == <<"s","a","n","a","t","i","z","e","d","_","e","m","p","t","y","_","i","d","e","n","t","i","f","i","e","r">>

SanitizedEmptyIdentifier == <<"s","a","n","i","t","i","z","e","d","_","e","m","p","t","y","_","i","d","e","n","t","i","f","i","e","r">>

ImportedTable == <<"i","m","p","o","r","t","e","d","_","t","a","b","l","e">>

\* a sanitizer that cuts a long name and keeps what the cut leaves at its end
SanitizeSQLNameCutOnly(raw) ==
    LET name == TrimLeftUnderscore(TrimRightUnderscore(CollapseUnderscores(
                    StripNonWord(ReplaceSeparators(ToLower(TrimSpace(raw)))))))
        pre  == IF name[1] \in Digits THEN <<"_">> \o name ELSE name
        cut  == IF Len(pre) > MaxIdentLen THEN SubSeq(pre, 1, MaxIdentLen) ELSE pre
    IN  IF name = <<>> THEN UnnamedIdentifier
        ELSE IF cut = <<>> THEN SanatizedEmptyIdentifier
        ELSE cut

\* a sanitizer that leaves a leading digit where it is
SanitizeSQLNameDigitFirst(raw) ==
    LET name == TrimLeftUnderscore(TrimRightUnderscore(CollapseUnderscores(
                    StripNonWord(ReplaceSeparators(ToLower(TrimSpace(raw)))))))
        cut  == IF Len(name) > MaxIdentLen
                THEN TrimRightUnderscore(SubSeq(name, 1, MaxIdentLen))
                ELSE name
    IN  IF name = <<>> THEN UnnamedIdentifier
        ELSE IF cut = <<>> THEN SanatizedEmptyIdentifier
        ELSE cut

\* services.CSVService.SanitizeSQLName
SanitizeSQLName(raw) ==
    LET name == TrimLeftUnderscore(TrimRightUnderscore(CollapseUnderscores(
                    StripNonWord(ReplaceSeparators(ToLower(TrimSpace(raw)))))))
        pre  == IF name[1] \in Digits THEN <<"_">> \o name ELSE name
        cut  == IF Len(pre) > MaxIdentLen
                THEN TrimRightUnderscore(SubSeq(pre, 1, MaxIdentLen))
                ELSE pre
    IN  IF name = <<>> THEN UnnamedIdentifier
        ELSE IF cut = <<>> THEN SanatizedEmptyIdentifier
        ELSE cut

\* filepath.Ext: the suffix from the last '.' of the last path element
RECURSIVE Ext(_)
Ext(path) ==
    IF path = <<>> \/ path[Len(path)] = "/" THEN <<>>
    ELSE IF path[Len(path)] = "." THEN <<".">>
    ELSE LET e == Ext(SubSeq(path, 1, Len(path) - 1))
         IN  IF e = <<>> THEN <<>> ELSE e \o <<path[Len(path)]>>

\* services.CSVService.SanitizeTableName
SanitizeTableName(filename) ==
    LET name      == SubSeq(filename, 1, Len(filename) - Len(Ext(filename)))
        sanitized == SanitizeSQLName(name)
    IN  IF sanitized \in {UnnamedIdentifier, SanatizedEmptyIdentifier, <<>>}
        THEN ImportedTable
        ELSE sanitized

\* strconv.Itoa for n >= 0, as fmt.Sprintf("%d") prints it
RECURSIVE Itoa(_)
Itoa(n) == IF n < 10 THEN <<DigitChar(n)>> ELSE Itoa(n \div 10) \o <<DigitChar(n % 10)>>

\* AppHandlers.CommitCSV: the column definitions built from the posted names
\* and types
BuildColumnDefs(columnNames, columnTypes) ==
    [i \in 1..Len(columnNames) |->
        LET sanitizedColName == SanitizeSQLName(columnNames[i])
        IN  [name |-> IF sanitizedColName \in {<<>>, UnnamedIdentifier, SanitizedEmptyIdentifier}
                      THEN <<"c","o","l","u","m","n","_">> \o Itoa(i)
                      ELSE sanitizedColName,
             type |-> columnTypes[i]]]

\* ------------------------------------------------------------ the store
\* PostgreSQL as the repository uses it: a table is its columns (name and
\* DDL type) and its rows, each row one value per column.

NoTable == [exists |-> FALSE, cols |-> <<>>, rows |-> <<>>]

Table(cols, rows) == [exists |-> TRUE, cols |-> cols, rows |-> rows]

\* CreateTable's column list: quoted name, mapped type
DDLColumns(columns) ==
    [i \in 1..Len(columns) |->
        [name |-> columns[i].name, type |-> mapToPostgresType(columns[i].type)]]

DistinctNames(cols) ==
    \A i, j \in 1..Len(cols) : cols[i].name = cols[j].name => i = j

HasColumn(cols, name) == \E i \in 1..Len(cols) : cols[i].name = name

\* the server's input conversion of a text parameter for a column type
TextAccepted(pgType, text) ==
    LET t == TrimSpace(text)
    IN  CASE pgType = TyINTEGER -> ParseIntOK(t) /\ FitsInt32(ParseIntValue(t))
          [] pgType = TyBIGINT -> ParseIntOK(t)
          [] pgType \in {TyNUMERIC, TyREAL} -> ParseFloatOK(t)
          [] pgType = TyBOOLEAN -> ToLower(t) \in (TrueTokens \cup FalseTokens)
          [] pgType = TyDATE -> AnyLayout(dateLayouts, t)
          [] pgType = TyPgTimestamp ->
               AnyLayout(tsLayouts, t) \/ AnyLayout(TimestampLayoutsInsert, t)
          [] OTHER -> TRUE

\* stmt.ExecContext: whether the server can store the value in a column of
\* the type (a statement may still fail for reasons outside the model)
StoreAccepts(pgType, value) ==
    CASE value.kind = "null" -> TRUE
      [] value.kind = "int64" ->
           IF pgType = TyINTEGER THEN FitsInt32(value.v)
           ELSE IF pgType = TyBOOLEAN THEN value.v \in {<<"0">>, <<"1">>}
           ELSE pgType \in {TyBIGINT, TyNUMERIC, TyREAL, TyTEXT}
      [] value.kind = "float64" ->
           IF pgType \in {TyINTEGER, TyBIGINT} THEN TextAccepted(pgType, value.v)
           ELSE pgType \in {TyNUMERIC, TyREAL, TyTEXT}
      [] value.kind = "bool" -> pgType \in {TyBOOLEAN, TyTEXT}
      [] value.kind = "string" -> TextAccepted(pgType, value.v)

ColumnIndex(columnDefs, name) == CHOOSE j \in 1..Len(columnDefs) : columnDefs[j].name = name

\* the row INSERT INTO t (columnDefs...) VALUES (values...) adds to a table
\* with columns cols: the named columns take the values, the others NULL
StoredRow(cols, columnDefs, values) ==
    [i \in 1..Len(cols) |->
        IF HasColumn(columnDefs, cols[i].name)
        THEN values[ColumnIndex(columnDefs, cols[i].name)]
        ELSE NullValue]

RowAccepted(cols, columnDefs, values) ==
    \A i \in 1..Len(cols) : StoreAccepts(cols[i].type, StoredRow(cols, columnDefs, values)[i])

\* tx.PreparexContext of the INSERT: the table and every named column exist,
\* and no column is named twice
PrepareAccepted(table, columnDefs) ==
    /\ table.exists
    /\ DistinctNames(columnDefs)
    /\ \A j \in 1..Len(columnDefs) : HasColumn(table.cols, columnDefs[j].name)

\* repositories.GetTableSchema: ErrDatabase when the catalog query fails,
\* ErrNotFound when it reports no column (the table does not exist or has
\* none), else the columns of the table as the catalog reports them (data_type
\* is the lower-case type name) with their application types
GetTableSchema(table, queryFails) ==
    IF queryFails THEN [err |-> "database_error", cols |-> <<>>]
    ELSE IF ~table.exists \/ table.cols = <<>> THEN [err |-> "not_found", cols |-> <<>>]
    ELSE [err  |-> "none",
          cols |-> [i \in 1..Len(table.cols) |->
                      [name |-> table.cols[i].name,
                       type |-> mapToAppType(ToLower(table.cols[i].type))]]]

\* ------------------------------------------------------------ ReadFullCSV
\* A temp file is the sequence of its CSV records, header first; NoFile
\* when it does not exist.

NoFile == [exists |-> FALSE, lines |-> <<>>]

File(lines) == [exists |-> TRUE, lines |-> lines]

\* a full read that leaves out the records of another width than the header
ReadFullCSVSkipping(file) ==
    IF ~file.exists
    THEN [err |-> "file_operation_error", headers |-> <<>>, allRecords |-> <<>>]
    ELSE IF file.lines = <<>>
    THEN [err |-> "csv_processing_error", headers |-> <<>>, allRecords |-> <<>>]
    ELSE [err |-> "none", headers |-> file.lines[1],
          allRecords |-> SelectSeq(Tail(file.lines),
                                   LAMBDA r : Len(r) = Len(file.lines[1]))]

\* services.CSVService.ReadFullCSV: encoding/csv fixes the field count with
\* the first record and fails on a record of another width
ReadFullCSV(file) ==
    IF ~file.exists
    THEN [err |-> "file_operation_error", headers |-> <<>>, allRecords |-> <<>>]
    ELSE IF file.lines = <<>>
    THEN [err |-> "csv_processing_error", headers |-> <<>>, allRecords |-> <<>>]
    ELSE IF \E i \in 2..Len(file.lines) : Len(file.lines[i]) # Len(file.lines[1])
    THEN [err |-> "csv_processing_error", headers |-> file.lines[1], allRecords |-> <<>>]
    ELSE [err |-> "none", headers |-> file.lines[1], allRecords |-> Tail(file.lines)]

\* ------------------------------------------------------ ParseUploadedCSV
\* An uploaded stream is the sequence of its lines, each a record of cells
\* without quotes, written with commas and ended by a newline.

\* the rows shown for a preview
MaxPreviewSize == 50

\* the buffer of the bufio.Reader that csv.NewReader puts on its input
DefaultBufSize == 4096

Min(a, b) == IF a < b THEN a ELSE b

RECURSIVE CellBytes(_)
CellBytes(line) == IF line = <<>> THEN 0 ELSE Len(Head(line)) + CellBytes(Tail(line))

\* the bytes of a line: its cells, the commas between them, the newline
LineBytes(line) == CellBytes(line) + Len(line)

RECURSIVE StreamBytes(_)
StreamBytes(lines) ==
    IF lines = <<>> THEN 0 ELSE LineBytes(Head(lines)) + StreamBytes(Tail(lines))

\* The bytes the csv.Reader has pulled through the TeeReader when `count`
\* calls of Read are over.  A call takes the next line from the buffer;
\* when the buffer holds no whole line, bufio fills its free space with one
\* Read of the source, and when the buffer is full of a line that has not
\* ended, readLine takes the whole buffer and goes on with an empty one.
\* fetched bytes have left the source (and are in the temp file), buffered of
\* them are not yet consumed, and taken bytes of the line at the head have
\* been consumed already.
RECURSIVE FetchedFrom(_, _, _, _, _, _)
FetchedFrom(lines, count, fetched, buffered, total, taken) ==
    IF count = 0 \/ lines = <<>> THEN fetched
    ELSE LET need == LineBytes(Head(lines)) - taken
         IN  IF buffered >= need
             THEN FetchedFrom(Tail(lines), count - 1, fetched, buffered - need, total, 0)
             ELSE IF buffered >= DefaultBufSize
             THEN FetchedFrom(lines, count, fetched, 0, total, taken + buffered)
             ELSE LET n == Min(DefaultBufSize - buffered, total - fetched)
                  IN  IF n <= 0 THEN fetched
                      ELSE FetchedFrom(lines, count, fetched + n, buffered + n, total, taken)

Fetched(lines, count, fetched, buffered, total) ==
    FetchedFrom(lines, count, fetched, buffered, total, 0)

\* the record the csv.Reader makes of the first n bytes of a line that is
\* cut before its newline
RECURSIVE CutLine(_, _)
CutLine(line, n) ==
    IF Len(Head(line)) >= n THEN <<SubSeq(Head(line), 1, n)>>
    ELSE <<Head(line)>> \o CutLine(Tail(line), n - Len(Head(line)) - 1)

\* the records in the first n bytes of a stream
RECURSIVE Prefix(_, _)
Prefix(lines, n) ==
    IF lines = <<>> \/ n = 0 THEN <<>>
    ELSE IF n >= LineBytes(Head(lines))
    THEN <<Head(lines)>> \o Prefix(Tail(lines), n - LineBytes(Head(lines)))
    ELSE <<CutLine(Head(lines), n)>>

\* the message of the csv.ParseError for a record of the wrong width on
\* line n of the input
FieldCountError(n) ==
    <<"r","e","c","o","r","d"," ","o","n"," ","l","i","n","e"," ">>
      \o Itoa(n) \o <<":"," ","w","r","o","n","g"," ","n","u","m","b","e","r"," ","o","f"," ","f","i","e","l","d","s">>

\* the row the preview shows in place of row i when reading it failed
PreviewErrorRow(i, message) ==
    << <<"E","r","r","o","r"," ","r","e","a","d","i","n","g"," ","p","r","e","v","i","e","w"," ","r","o","w"," ">>
         \o Itoa(i) \o <<":", " ">> \o message >>

\* the preview rows whose width is not the header's, by position
BadPreviewRows(lines) ==
    {i \in 1..Min(Len(lines) - 1, MaxPreviewSize) : Len(lines[i + 1]) # Len(lines[1])}

\* services.CSVService.ParseUploadedCSV: the header and at most
\* MaxPreviewSize rows are read through a TeeReader into the temp file; a
\* row that fails to read ends the preview with a row that carries the
\* error; the temp file is closed with what has been pulled so far
ParseUploadedCSV(lines) ==
    IF lines = <<>>
    THEN [err |-> "csv_processing_error", temp |-> NoFile, headers |-> <<>>,
          previewRows |-> <<>>]
    ELSE LET bad   == BadPreviewRows(lines)
             first == CHOOSE i \in bad : \A j \in bad : i <= j
             rows  == IF bad = {} THEN Min(Len(lines) - 1, MaxPreviewSize) ELSE first - 1
             reads == IF bad = {} THEN 1 + MaxPreviewSize ELSE 1 + first
         IN  [err |-> "none",
              temp |-> File(Prefix(lines, Fetched(lines, reads, 0, 0, StreamBytes(lines)))),
              headers |-> Head(lines),
              previewRows |->
                  SubSeq(lines, 2, 1 + rows)
                    \o (IF bad = {} THEN <<>>
                        ELSE <<PreviewErrorRow(first, FieldCountError(first + 1))>>)]

\* ------------------------------------------------- the commit handler
\* AppHandlers.CommitCSV, one request per process.

VARIABLES
    db,          \* the committed catalog: table name -> table
    files,       \* the temp directory: path -> file
    pc,          \* each request's position in the handler
    req,         \* the request as posted (table name already sanitized)
    columnDefs,  \* the handler's columnDefs
    allRecords,  \* the handler's allRecords
    rowIdx,      \* InsertData's loop index i + 1
    err,         \* the code of the handler's err / operationErr, "none" for nil
    resp,        \* the response written
    tx,          \* the request's transaction
    cancelled,   \* the request context is done
    log,         \* the statements the database has executed for the request
    arg,         \* the input of a function checked on its own
    out          \* and what the function has returned for it

vars == <<db, files, pc, req, columnDefs, allRecords, rowIdx, err, resp, tx, cancelled, log,
          arg, out>>

handlerVars == <<db, files, pc, req, columnDefs, allRecords, rowIdx, err, resp, tx, cancelled,
                 log>>

\* the largest number of data rows of a temp file
MaxRows == 2

Procs == {"r1", "r2"}

PeopleTable == <<"p","e","o","p","l","e">>

TableNames == {PeopleTable}

Paths == {"f1"}

CellOne == <<"1">>
CellZero == <<"0">>
CellMaybe == <<"m","a","y","b","e">>
CellX == <<"x">>

HeaderId == <<<<"i","d">>>>
HeaderIdName == <<<<"i","d">>, <<"n","a","m","e">>>>

SeqsUpTo(rows, n) == UNION {[1..k -> rows] : k \in 0..n}

\* k rows of one cell, "1" and "0" in turn
BooleanRows(k) == [i \in 1..k |-> IF i % 2 = 1 THEN <<CellOne>> ELSE <<CellZero>>]

\* the same rows with a last cell that is no boolean
LastRowBad(k) == [BooleanRows(k) EXCEPT ![k] = <<CellMaybe>>]

\* the temp files a request may name: well-formed files of one and of two
\* columns, and a file with a row wider than its header
FileContents ==
    {File(<<HeaderId>> \o BooleanRows(k)) : k \in 0..MaxRows}
    \cup {File(<<HeaderId>> \o LastRowBad(k)) : k \in 1..MaxRows}
    \cup {File(<<HeaderIdName>> \o rs) : rs \in SeqsUpTo({<<CellOne, CellX>>}, 1)}
    \cup {File(<<HeaderId, <<CellOne, CellX>> >>)}

\* the tables the database may hold before the requests arrive
InitialTables ==
    {NoTable,
     Table(<<[name |-> <<"i","d">>, type |-> TyBOOLEAN]>>, << <<[kind |-> "bool", v |-> BoolTrue]>> >>),
     Table(<<[name |-> <<"i","d">>, type |-> TyINTEGER], [name |-> <<"n","a","m","e">>, type |-> TyTEXT]>>,
           << <<[kind |-> "int64", v |-> <<"7">>], [kind |-> "string", v |-> CellX]>> >>)}

Actions == {"create", "overwrite", "append", "merge"}

\* the posted forms: r.PostFormValue / r.Form of CommitCSV
Forms ==
    [tempFilePath : Paths,
     tableName    : {<<"P","e","o","p","l","e">>},
     action       : Actions,
     columnNames  : {<<<<"I","d">>>>},
     columnTypes  : {<<TyBOOLEAN>>}]
    \cup {[tempFilePath |-> "f1", tableName |-> <<"P","e","o","p","l","e">>,
            action |-> "create", columnNames |-> <<<<"I","d">>>>, columnTypes |-> <<>>]}

NoReq == [tempFilePath |-> "", tableName |-> <<>>, action |-> "", columnNames |-> <<>>,
          columnTypes |-> <<>>]

NoTx == [status |-> "none", dropped |-> FALSE, created |-> FALSE, cols |-> <<>>,
         rows |-> <<>>, lock |-> "none"]

\* no function is being checked on its own
NoArg == [fn |-> "none"]

NoOut == [state |-> "none"]

Init ==
    /\ db \in [TableNames -> InitialTables]
    /\ files \in [Paths -> FileContents]
    /\ pc = [p \in Procs |-> "idle"]
    /\ req = [p \in Procs |-> NoReq]
    /\ columnDefs = [p \in Procs |-> <<>>]
    /\ allRecords = [p \in Procs |-> <<>>]
    /\ rowIdx = [p \in Procs |-> 0]
    /\ err = [p \in Procs |-> "none"]
    /\ resp = [p \in Procs |-> "none"]
    /\ tx = [p \in Procs |-> NoTx]
    /\ cancelled = [p \in Procs |-> FALSE]
    /\ log = [p \in Procs |-> <<>>]
    /\ arg = NoArg
    /\ out = NoOut

\* the table as the request's transaction sees it: its own DDL and inserts
\* over the committed catalog (READ COMMITTED)
View(p) ==
    LET t == db[req[p].tableName]
    IN  IF tx[p].created THEN Table(tx[p].cols, tx[p].rows)
        ELSE IF tx[p].dropped THEN NoTable
        ELSE IF t.exists THEN Table(t.cols, t.rows \o tx[p].rows)
        ELSE NoTable

\* another open transaction holds a lock on the request's table
OtherLock(p, modes) ==
    \E q \in Procs \ {p} :
        /\ tx[q].status = "open"
        /\ req[q].tableName = req[p].tableName
        /\ tx[q].lock \in modes

\* a transaction that has ended: its writes are in the catalog or gone, its
\* locks released
Finished(status) == [NoTx EXCEPT !.status = status]

\* a deferred function that never rolls back
DeferredNoRollback(t, code) == t

\* a deferred function that sees no error on the paths answered with a flash
\* message for a conflict or an invalid action
DeferredRollbackServerErrors(t, code) ==
    IF code \notin {"none", "data_conflict", "invalid_action"} /\ t.status = "open"
    THEN Finished("rolledback") ELSE t

\* the deferred function of CommitCSV: tx.Rollback() when err was set (a
\* no-op on a transaction that is already finished)
DeferredRollback(t, code) ==
    IF code # "none" /\ t.status = "open" THEN Finished("rolledback") ELSE t

\* the handler's locals are not read again once it is returning
Returned(p) ==
    /\ columnDefs' = [columnDefs EXCEPT ![p] = <<>>]
    /\ allRecords' = [allRecords EXCEPT ![p] = <<>>]
    /\ rowIdx' = [rowIdx EXCEPT ![p] = 0]

\* The handler returns from below `defer os.Remove`: it has written its
\* response, and the deferred calls have still to run, last registered first:
\* the rollback (registered once the transaction is open), then os.Remove of
\* the temp file.  Other requests run in between.
Exit(p, code, response, t) ==
    /\ err' = [err EXCEPT ![p] = code]
    /\ resp' = [resp EXCEPT ![p] = response]
    /\ tx' = [tx EXCEPT ![p] = t]
    /\ pc' = [pc EXCEPT ![p] = IF t.status = "open" THEN "rollback" ELSE "remove"]
    /\ Returned(p)
    /\ UNCHANGED <<files, cancelled>>

\* the handler returns with an error
Fail(p, code, response) == Exit(p, code, response, tx[p])

\* a statement the database executed for the request
Executed(p, stmt) == log' = [log EXCEPT ![p] = Append(@, stmt)]

\* The requests are interchangeable: r1 names the one that arrives first.
Arrived(p) == p = "r1" \/ pc["r1"] # "idle"

\* CommitCSV answers a request that is not a POST, or whose form does not
\* parse, before it has read anything of it
Refuse(p) ==
    /\ pc[p] = "idle"
    /\ Arrived(p)
    /\ \E answer \in {"method_not_allowed", "bad_request"} :
          /\ resp' = [resp EXCEPT ![p] = answer]
          /\ err' = [err EXCEPT ![p] = answer]
    /\ pc' = [pc EXCEPT ![p] = "done"]
    /\ cancelled' = [cancelled EXCEPT ![p] = TRUE]
    /\ UNCHANGED <<db, files, req, columnDefs, allRecords, rowIdx, tx, log, arg, out>>

\* CommitCSV up to ReadFullCSV: the form is read and checked, os.Remove of the
\* temp file is deferred, columnDefs are built and the whole file is read
Receive(p) ==
    /\ pc[p] = "idle"
    /\ Arrived(p)
    /\ \E f \in Forms :
        LET r       == [f EXCEPT !.tableName = SanitizeTableName(f.tableName)]
            invalid == \/ r.tableName = <<>>
                       \/ r.tempFilePath = ""
                       \/ Len(r.columnNames) = 0
                       \/ Len(r.columnNames) # Len(r.columnTypes)
            read    == ReadFullCSV(files[r.tempFilePath])
        IN  /\ req' = [req EXCEPT ![p] = r]
            /\ IF invalid
               THEN /\ resp' = [resp EXCEPT ![p] = "flash_error"]
                    /\ err' = [err EXCEPT ![p] = "invalid_commit_data"]
                    /\ pc' = [pc EXCEPT ![p] = "done"]
                    /\ cancelled' = [cancelled EXCEPT ![p] = TRUE]
                    /\ UNCHANGED <<columnDefs, allRecords, rowIdx, files, tx>>
               ELSE IF read.err # "none"
               THEN Exit(p, read.err, "flash_error", tx[p])
               ELSE /\ columnDefs' = [columnDefs EXCEPT
                                        ![p] = BuildColumnDefs(r.columnNames, r.columnTypes)]
                    /\ allRecords' = [allRecords EXCEPT ![p] = read.allRecords]
                    /\ pc' = [pc EXCEPT ![p] = "begin"]
                    /\ UNCHANGED <<err, resp, files, tx, cancelled, rowIdx>>
    /\ UNCHANGED <<db, log, arg, out>>

\* h.repo.Beginx(): db.Beginx takes no context
Beginx(p) ==
    /\ pc[p] = "begin"
    /\ \/ /\ tx' = [tx EXCEPT ![p] = [NoTx EXCEPT !.status = "open"]]
          /\ pc' = [pc EXCEPT ![p] = "exists"]
          /\ UNCHANGED <<err, resp, files, cancelled, columnDefs, allRecords, rowIdx>>
       \/ Fail(p, "database_error", "server_error")
    /\ UNCHANGED <<db, req, log, arg, out>>

\* a switch without the conflict branch of Create: the table is created anyway
ActionSwitchCreateAnyway(tableExists, action) ==
    IF tableExists
    THEN CASE action = "overwrite" -> "drop"
           [] action = "append" -> "insert"
           [] action = "create" -> "create"
           [] OTHER -> "invalid_action"
    ELSE IF action = "append" THEN "data_conflict" ELSE "create"

\* a switch that treats Append to an existing table as Overwrite
ActionSwitchAppendDrops(tableExists, action) ==
    IF tableExists
    THEN CASE action \in {"overwrite", "append"} -> "drop"
           [] action = "create" -> "data_conflict"
           [] OTHER -> "invalid_action"
    ELSE IF action = "append" THEN "data_conflict" ELSE "create"

\* a switch that refuses Overwrite for a table that does not exist
ActionSwitchOverwriteNeedsTable(tableExists, action) ==
    IF tableExists
    THEN CASE action = "overwrite" -> "drop"
           [] action = "append" -> "insert"
           [] action = "create" -> "data_conflict"
           [] OTHER -> "invalid_action"
    ELSE IF action \in {"append", "overwrite"} THEN "data_conflict" ELSE "create"

\* the switch of CommitCSV on the table's presence and the action: the step
\* that follows, or the code of the error that ends the request
ActionSwitch(tableExists, action) ==
    IF tableExists
    THEN CASE action = "overwrite" -> "drop"
           [] action = "append" -> "insert"
           [] action = "create" -> "data_conflict"
           [] OTHER -> "invalid_action"
    ELSE IF action = "append" THEN "data_conflict" ELSE "create"

\* h.repo.TableExists on the pool (outside the transaction), then the switch
\* on the action: conflicts and an invalid action return here
TableExists(p) ==
    /\ pc[p] = "exists"
    /\ \/ Fail(p, "database_error", "server_error")
       \/ /\ ~cancelled[p]
          /\ LET next == ActionSwitch(db[req[p].tableName].exists, req[p].action)
             IN  IF next \in {"data_conflict", "invalid_action"}
                 THEN Fail(p, next, "flash_error")
                 ELSE /\ pc' = [pc EXCEPT ![p] = next]
                      /\ UNCHANGED <<err, resp, files, tx, cancelled,
                                     columnDefs, allRecords, rowIdx>>
    /\ UNCHANGED <<db, req, log, arg, out>>

\* h.repo.DropTable(ctx, tx, ...): DROP TABLE IF EXISTS inside the
\* transaction; it fails when ctx is done or the server reports an error, and
\* waits while another transaction holds a lock on the table
DropTable(p) ==
    /\ pc[p] = "drop"
    /\ \/ /\ Fail(p, "database_error", "server_error")
          /\ UNCHANGED log
       \/ /\ ~cancelled[p]
          /\ ~OtherLock(p, {"shared", "exclusive"})
          /\ Executed(p, "DROP")
          /\ tx' = [tx EXCEPT ![p].dropped = TRUE, ![p].created = FALSE,
                              ![p].rows = <<>>, ![p].lock = "exclusive"]
          /\ pc' = [pc EXCEPT ![p] = "create"]
          /\ UNCHANGED <<err, resp, files, cancelled, columnDefs, allRecords, rowIdx>>
    /\ UNCHANGED <<db, req, arg, out>>

\* h.repo.CreateTable(ctx, tx, ...): CREATE TABLE inside the transaction.  It
\* fails when ctx is done or the server reports an error; the server refuses
\* a name that exists and a column named twice, and CreateTable wraps every
\* failure as a database error, which the handler answers as a server error.
CreateTable(p) ==
    /\ pc[p] = "create"
    /\ \/ /\ Fail(p, "database_error", "server_error")
          /\ UNCHANGED log
       \/ /\ ~cancelled[p]
          /\ ~OtherLock(p, {"shared", "exclusive"})
          /\ View(p).exists \/ ~DistinctNames(DDLColumns(columnDefs[p]))
          /\ Fail(p, "database_error", "server_error")
          /\ UNCHANGED log
       \/ /\ ~cancelled[p]
          /\ ~OtherLock(p, {"shared", "exclusive"})
          /\ ~View(p).exists
          /\ DistinctNames(DDLColumns(columnDefs[p]))
          /\ Executed(p, "CREATE")
          /\ tx' = [tx EXCEPT ![p].created = TRUE, ![p].cols = DDLColumns(columnDefs[p]),
                              ![p].rows = <<>>, ![p].lock = "exclusive"]
          /\ pc' = [pc EXCEPT ![p] = "insert"]
          /\ UNCHANGED <<err, resp, files, cancelled, columnDefs, allRecords, rowIdx>>
    /\ UNCHANGED <<db, req, arg, out>>

\* InsertData before its loop: nothing to do without records, else the
\* INSERT is prepared on the transaction
PrepareInsert(p) ==
    /\ pc[p] = "insert"
    /\ \/ /\ Len(allRecords[p]) = 0
          /\ pc' = [pc EXCEPT ![p] = "commit"]
          /\ UNCHANGED <<err, resp, files, cancelled, tx, log, rowIdx, columnDefs, allRecords>>
       \/ /\ Len(allRecords[p]) > 0
          /\ Fail(p, "database_error", "flash_error")
          /\ UNCHANGED log
       \/ /\ Len(allRecords[p]) > 0
          /\ ~cancelled[p]
          /\ ~OtherLock(p, {"exclusive"})
          /\ PrepareAccepted(View(p), columnDefs[p])
          /\ Executed(p, "PREPARE")
          /\ tx' = [tx EXCEPT ![p].lock = IF @ = "none" THEN "shared" ELSE @]
          /\ rowIdx' = [rowIdx EXCEPT ![p] = 1]
          /\ pc' = [pc EXCEPT ![p] = "row"]
          /\ UNCHANGED <<err, resp, files, cancelled, columnDefs, allRecords>>
    /\ UNCHANGED <<db, req, arg, out>>

\* a loop that stops after its first record
LastRecordFirst(i, records) == TRUE

\* InsertData's loop ends after the record at index i
LastRecord(i, records) == i = Len(records)

\* one pass of InsertData's loop: the width check, the coercion of every
\* cell, and the execution of the prepared INSERT
InsertRow(p) ==
    /\ pc[p] = "row"
    /\ LET record == allRecords[p][rowIdx[p]]
           conv   == ConvertRecord(columnDefs[p], record, 1)
       IN  IF Len(record) # Len(columnDefs[p])
           THEN Fail(p, "data_mismatch", "flash_error") /\ UNCHANGED log
           ELSE IF conv.err
           THEN Fail(p, "type_conversion_error", "flash_error") /\ UNCHANGED log
           ELSE \/ /\ Fail(p, "database_error", "flash_error")
                   /\ UNCHANGED log
                \/ /\ ~cancelled[p]
                   /\ RowAccepted(View(p).cols, columnDefs[p], conv.values)
                   /\ Executed(p, "INSERT")
                   /\ tx' = [tx EXCEPT ![p].rows =
                               Append(@, StoredRow(View(p).cols, columnDefs[p], conv.values))]
                   /\ rowIdx' = [rowIdx EXCEPT ![p] = @ + 1]
                   /\ pc' = [pc EXCEPT ![p] =
                               IF LastRecord(rowIdx[p], allRecords[p]) THEN "commit" ELSE "row"]
                   /\ UNCHANGED <<err, resp, files, cancelled, columnDefs, allRecords>>
    /\ UNCHANGED <<db, req, arg, out>>

\* the catalog after the request's transaction commits
Committed(p) == [db EXCEPT ![req[p].tableName] = View(p)]

\* tx.Commit() and the handler's return: Commit takes no context; a failed
\* commit leaves nothing behind
Commit(p) ==
    /\ pc[p] = "commit"
    /\ \/ /\ db' = Committed(p)
          /\ Executed(p, "COMMIT")
          /\ Exit(p, "none", "flash_success", Finished("committed"))
       \/ /\ Exit(p, "database_error", "server_error", Finished("rolledback"))
          /\ UNCHANGED <<db, log>>
    /\ UNCHANGED <<req, arg, out>>

\* the deferred function of CommitCSV runs: the transaction is rolled back
\* when err was set
Rollback(p) ==
    /\ pc[p] = "rollback"
    /\ tx' = [tx EXCEPT ![p] = DeferredRollback(tx[p], err[p])]
    /\ pc' = [pc EXCEPT ![p] = "remove"]
    /\ UNCHANGED <<db, files, req, columnDefs, allRecords, rowIdx, err, resp, cancelled, log,
                   arg, out>>

\* the deferred os.Remove of the temp file runs and the handler has returned:
\* a panic reaches recoverPanic, which answers with a server error, and
\* net/http cancels the request context
RemoveTempFile(p) ==
    /\ pc[p] = "remove"
    /\ files' = [files EXCEPT ![req[p].tempFilePath] = NoFile]
    /\ resp' = [resp EXCEPT ![p] = IF err[p] = "panic" THEN "server_error" ELSE @]
    /\ cancelled' = [cancelled EXCEPT ![p] = TRUE]
    /\ pc' = [pc EXCEPT ![p] = "done"]
    /\ UNCHANGED <<db, req, columnDefs, allRecords, rowIdx, err, tx, log, arg, out>>

\* the client goes away: r.Context() is done.  The handler observes it only
\* at the calls that take ctx, so it is raised while the handler is running.
Cancel(p) ==
    /\ pc[p] \in {"exists", "drop", "create", "insert", "row", "commit"}
    /\ ~cancelled[p]
    /\ cancelled' = [cancelled EXCEPT ![p] = TRUE]
    /\ UNCHANGED <<db, files, pc, req, columnDefs, allRecords, rowIdx, err, resp, tx, log, arg, out>>

\* a panic below the handler: the deferred calls run as the stack unwinds
\* (the deferred function recovers, rolls the transaction back and panics
\* again), and nothing has been answered yet
Panic(p) ==
    /\ pc[p] \in {"begin", "exists", "drop", "create", "insert", "row", "commit"}
    /\ Exit(p, "panic", resp[p], tx[p])
    /\ UNCHANGED <<db, req, log, arg, out>>

Next ==
    \E p \in Procs :
        \/ Refuse(p)
        \/ Receive(p)
        \/ Beginx(p)
        \/ TableExists(p)
        \/ DropTable(p)
        \/ CreateTable(p)
        \/ PrepareInsert(p)
        \/ InsertRow(p)
        \/ Commit(p)
        \/ Rollback(p)
        \/ RemoveTempFile(p)
        \/ Cancel(p)
        \/ Panic(p)

Spec == Init /\ [][Next]_vars

\* -------------------------------------------------- CommitCSV: properties

\* the table a request names
Target(p) == db[req[p].tableName]

\* the positions of a request that is leaving the handler or has left it
Leaving == {"rollback", "remove", "done"}

\* C1: a commit is all or nothing.  The catalog changes only in the step in
\* which a request's transaction commits, and then to that transaction's
\* result; a request that returns with an error has changed nothing and its
\* transaction is rolled back, however far it had gone.
C1_Atomic ==
    [][/\ db' # db =>
            \E p \in Procs : /\ pc[p] = "commit"
                             /\ pc'[p] = "remove"
                             /\ err'[p] = "none"
                             /\ db' = Committed(p)
       /\ \A p \in Procs :
            (pc'[p] = "done" /\ err'[p] # "none") =>
                tx'[p].status \in {"none", "rolledback"}]_vars

\* an Overwrite dropped and recreated a BOOLEAN table, met a cell that is no
\* boolean, and the table is as it was before
C1_Witness ==
    \E p \in Procs :
        /\ pc[p] = "done"
        /\ req[p].action = "overwrite"
        /\ err[p] = "type_conversion_error"
        /\ Len(log[p]) >= 2
        /\ log[p][1] = "DROP"
        /\ log[p][2] = "CREATE"
        /\ tx[p].status = "rolledback"
        /\ \A q \in Procs : "COMMIT" \notin {log[q][i] : i \in 1..Len(log[q])}
        /\ Target(p) = Table(<<[name |-> <<"i","d">>, type |-> TyBOOLEAN]>>,
                             << <<[kind |-> "bool", v |-> BoolTrue]>> >>)

\* C2: when the existence check has answered, a Create for a table that
\* exists and an Append for a table that does not end the request there with
\* data_conflict, shown to the user as a flash: no statement has been
\* executed for it, the catalog is unchanged, and the deferred function
\* rolls the transaction back.
C2_Conflict ==
    [][\A p \in Procs :
        /\ (/\ pc[p] = "exists"
            /\ pc'[p] # "exists"
            /\ err'[p] \notin {"database_error", "panic"}
            /\ \/ req[p].action = "create" /\ Target(p).exists
               \/ req[p].action = "append" /\ ~Target(p).exists)
           => /\ pc'[p] = "rollback"
              /\ err'[p] = "data_conflict"
              /\ resp'[p] = "flash_error"
              /\ log'[p] = <<>>
              /\ db' = db
        /\ (/\ pc[p] = "rollback"
            /\ pc'[p] # "rollback"
            /\ err[p] = "data_conflict")
           => /\ tx'[p].status = "rolledback"
              /\ log'[p] = <<>>
              /\ db' = db]_vars

\* a Create was refused because the table exists
C2_Witness ==
    \E p \in Procs :
        /\ pc[p] = "done"
        /\ req[p].action = "create"
        /\ err[p] = "data_conflict"
        /\ resp[p] = "flash_error"
        /\ log[p] = <<>>
        /\ tx[p].status = "rolledback"
        /\ Target(p).exists
        /\ \A q \in Procs : log[q] = <<>>

\* the compatibility relation of the validator: a source type against the
\* application type of the target column
SpecCompatible(sourceType, targetType) ==
    \/ sourceType = targetType
    \/ sourceType = TyINTEGER /\ targetType \in {TyBIGINT, TyNUMERIC, TyREAL}
    \/ sourceType = TyREAL /\ targetType = TyNUMERIC
    \/ sourceType = TyDATE /\ targetType = TyTIMESTAMP

\* the validator rejects: the column counts differ, a source column is not in
\* the target, or a source type is not compatible with the target's
SchemaMismatch(source, target) ==
    \/ Len(source) # Len(target)
    \/ \E j \in 1..Len(source) :
            \A i \in 1..Len(target) : ToLower(target[i].name) # ToLower(source[j].name)
    \/ \E j \in 1..Len(source) : \E i \in 1..Len(target) :
            /\ ToLower(target[i].name) = ToLower(source[j].name)
            /\ ~SpecCompatible(ToUpper(source[j].type), target[i].type)

\* C3: an Append or Overwrite that finds its table is checked against the
\* table's catalog schema before anything is executed: when the columns of
\* the request do not match it, the request ends there with an error.
C3_Validated ==
    [][\A p \in Procs :
        (/\ pc[p] = "exists"
         /\ pc'[p] # "exists"
         /\ err'[p] \notin {"database_error", "panic"}
         /\ req[p].action \in {"append", "overwrite"}
         /\ Target(p).exists
         /\ SchemaMismatch(columnDefs[p], GetTableSchema(Target(p), FALSE).cols))
        => /\ pc'[p] \in Leaving
           /\ err'[p] # "none"
           /\ log'[p] = <<>>]_vars

\* C4 as the code has it: an Overwrite that finds no table goes on as a
\* Create does, and when it commits the table exists with the request's
\* columns and the rows it inserted.
C4_OverwriteCreates ==
    [][\A p \in Procs :
        req[p].action = "overwrite" =>
            /\ (/\ pc[p] = "exists"
                /\ pc'[p] # "exists"
                /\ err'[p] \notin {"database_error", "panic"}
                /\ ~Target(p).exists)
               => (pc'[p] = "create" /\ err'[p] = "none" /\ resp'[p] = "none")
            /\ (/\ pc[p] = "commit"
                /\ tx'[p].status = "committed"
                /\ log[p][1] = "CREATE")
               => db'[req[p].tableName] = Table(DDLColumns(columnDefs[p]), tx[p].rows)]_vars

\* an Overwrite created the table it did not find and loaded two rows
C4_Witness ==
    \E p \in Procs :
        /\ pc[p] = "done"
        /\ req[p].action = "overwrite"
        /\ err[p] = "none"
        /\ log[p] = <<"CREATE", "PREPARE", "INSERT", "INSERT", "COMMIT">>
        /\ Target(p).exists
        /\ Len(Target(p).rows) = 2

\* C4 as it is written: an Overwrite that finds no table ends there with an
\* error and creates nothing.
C4_OverwriteNeedsTable ==
    [][\A p \in Procs :
        (/\ pc[p] = "exists"
         /\ pc'[p] # "exists"
         /\ err'[p] \notin {"database_error", "panic"}
         /\ req[p].action = "overwrite"
         /\ ~Target(p).exists)
        => /\ pc'[p] \in Leaving
           /\ err'[p] # "none"
           /\ log'[p] = <<>>]_vars

\* the statements of a committed request: the DDL of its action, the
\* prepared INSERT and one execution per record, then COMMIT
CommittedLog(n) ==
    {ddl \o (IF n = 0 THEN <<>> ELSE <<"PREPARE">> \o [i \in 1..n |-> "INSERT"]) \o <<"COMMIT">> :
        ddl \in {<<>>, <<"CREATE">>, <<"DROP", "CREATE">>}}

\* C7: COMMIT is the last statement of a request, after its DDL and one
\* successful INSERT for every record of the file, and the rows the commit
\* adds to the table are the records of the file in the file's order.
C7_Order ==
    [][\A p \in Procs :
        (pc[p] = "commit" /\ tx'[p].status = "committed") =>
            LET n    == Len(allRecords[p])
                t    == db'[req[p].tableName]
                k    == Len(t.rows) - n
            IN  /\ log'[p] \in CommittedLog(n)
                /\ k >= 0
                /\ \A i \in 1..n :
                     t.rows[k + i] =
                         StoredRow(t.cols, columnDefs[p],
                                   ConvertRecord(columnDefs[p], allRecords[p][i], 1).values)]_vars

\* a Create loaded the two records of its file in their order
C7_Witness ==
    \E p \in Procs :
        /\ pc[p] = "done"
        /\ log[p] = <<"CREATE", "PREPARE", "INSERT", "INSERT", "COMMIT">>
        /\ Target(p).rows = << <<[kind |-> "bool", v |-> BoolTrue]>>,
                               <<[kind |-> "bool", v |-> BoolFalse]>> >>

\* C8: of two Creates for the same table only one commits, and the one that
\* finds the table created meanwhile ends with data_conflict, shown to the
\* user as a flash.
C8_CreateRace ==
    [][/\ \A p \in Procs :
            (/\ pc[p] = "create"
             /\ req[p].action = "create"
             /\ ~cancelled[p]
             /\ Target(p).exists
             /\ pc'[p] \in Leaving
             /\ err'[p] # "panic")
            => (err'[p] = "data_conflict" /\ resp'[p] = "flash_error")
       /\ \A p, q \in Procs :
            (/\ p # q
             /\ req[p].action = "create"
             /\ req[q].action = "create"
             /\ req[p].tableName = req[q].tableName
             /\ tx'[p].status = "committed")
            => tx'[q].status # "committed"]_vars

\* C9: a request whose context is done before COMMIT is issued does not
\* commit: it ends rolled back and the catalog is unchanged.
C9_CancelRollsBack ==
    [][\A p \in Procs :
        (pc[p] = "commit" /\ cancelled[p] /\ pc'[p] \in Leaving /\ err'[p] # "panic")
        => (tx'[p].status = "rolledback" /\ db' = db /\ err'[p] # "none")]_vars

\* ------------------------------------------- functions checked on their own

\* the commit handler at rest
HandlerIdle ==
    /\ db = [t \in TableNames |-> NoTable]
    /\ pc = [p \in Procs |-> "idle"]
    /\ req = [p \in Procs |-> NoReq]
    /\ columnDefs = [p \in Procs |-> <<>>]
    /\ allRecords = [p \in Procs |-> <<>>]
    /\ rowIdx = [p \in Procs |-> 0]
    /\ err = [p \in Procs |-> "none"]
    /\ resp = [p \in Procs |-> "none"]
    /\ tx = [p \in Procs |-> NoTx]
    /\ cancelled = [p \in Procs |-> FALSE]
    /\ log = [p \in Procs |-> <<>>]

Pending == [state |-> "pending"]

\* ---- the coercion of one cell

CoerceTypes ==
    {TyINT, TyINTEGER, TyBIGINT, TyDECIMAL, TyNUMERIC, TyREAL, TyFLOAT, TyDOUBLE, TyDATE,
     TyTIMESTAMP, TyDATETIME, TyBOOLEAN, TyTEXT}

CoerceCells ==
    {<<>>, <<" ">>, <<"1">>, <<" ","7"," ">>, <<"-","3">>, <<"3",".","5">>,
     <<"1","e","5">>, <<"a","b","c">>, <<"m","a","y","b","e">>, <<"Y","e","s">>,
     <<"2","0","2","4","-","0","1","-","1","5">>,
     <<"0","1","/","1","5","/","2","0","2","4">>,
     <<"2","0","2","4","-","1","3","-","4","5">>,
     <<"2","0","2","4","-","0","1","-","1","5"," ","1","0",":","3","0",":","0","0">>,
     <<"2","0","2","4","-","0","1","-","1","5","T","1","0",":","3","0",":","0","0","Z">>,
     <<"9","2","2","3","3","7","2","0","3","6","8","5","4","7","7","5","8","0","8">>,
     <<"9","2","2","3","3","7","2","0","3","6","8","5","4","7","7","5","8","0","7">>,
     <<"2","1","4","7","4","8","3","6","4","8">>,
     <<"1","_","5">>, <<"1","e","9","9","9">>, <<"0","x","1","p","-","2">>,
     <<"2","0","2","4","-","0","1","-","1","5"," ","\t","1","0",":","3","0",":","0","0">>}

InitCoerce ==
    /\ HandlerIdle
    /\ files = [f \in Paths |-> NoFile]
    /\ arg \in {[fn |-> "ConvertCell", declaredType |-> ty, valStr |-> c] :
                    ty \in CoerceTypes, c \in CoerceCells}
    /\ out = Pending

\* InsertData converts the cell for its column
Coerce ==
    /\ arg.fn = "ConvertCell"
    /\ out.state = "pending"
    /\ out' = [state |-> "returned", result |-> ConvertCell(arg.declaredType, arg.valStr)]
    /\ UNCHANGED <<arg, handlerVars>>

NextCoerce == Coerce

SpecCoerce == InitCoerce /\ [][NextCoerce]_vars

\* the trimmed cell has the form InsertData accepts for the declared type
ParsesAs(declaredType, valStr) ==
    LET colType == ToUpper(declaredType)
        clean   == TrimSpace(valStr)
    IN  CASE colType \in {TyINT, TyINTEGER, TyBIGINT} -> ParseIntOK(clean)
          [] colType \in {TyDECIMAL, TyNUMERIC, TyREAL, TyFLOAT, TyDOUBLE} -> ParseFloatOK(clean)
          [] colType = TyDATE -> AnyLayout(DateLayoutsInsert, clean)
          [] colType \in {TyTIMESTAMP, TyDATETIME} -> AnyLayout(TimestampLayoutsInsert, clean)
          [] colType = TyBOOLEAN -> ToLower(clean) \in TrueTokens \cup FalseTokens
          [] OTHER -> TRUE

\* C22: for every declared type, TEXT among them, a cell that is empty after
\* trimming is handed to the statement as NULL and is no conversion error.
C22_EmptyIsNull ==
    (/\ arg.fn = "ConvertCell"
     /\ out.state = "returned"
     /\ TrimSpace(arg.valStr) = <<>>)
    => /\ ~out.result.err
       /\ out.result.value = NullValue

\* a cell of one space in a TEXT column became NULL
C22_Witness ==
    /\ arg.fn = "ConvertCell"
    /\ out.state = "returned"
    /\ arg.declaredType = TyTEXT
    /\ arg.valStr = <<" ">>
    /\ out.result.value = NullValue

\* C5: for every column type but TEXT, DATE and TIMESTAMP among them, a
\* cell that is not empty and does not parse as the type is a conversion
\* error: no value is handed to the statement for it.
C5_CoercionFatal ==
    (/\ arg.fn = "ConvertCell"
     /\ out.state = "returned"
     /\ ToUpper(arg.declaredType) # TyTEXT
     /\ TrimSpace(arg.valStr) # <<>>
     /\ ~ParsesAs(arg.declaredType, arg.valStr))
    => out.result.err

\* ---- the inference of a schema from preview rows

\* the largest number of preview rows of an inference
MaxSampleRows == 2

InferCells ==
    {<<>>, <<" ">>, <<"1">>, <<"0">>, <<"7">>, <<"-","3">>, <<"3",".","5">>,
     <<"a","b","c">>, <<"t","r","u","e">>,
     <<"2","0","2","4","-","0","1","-","1","5">>, <<"1","/","5","/","2","0","2","4">>,
     <<"2","0","2","4","-","0","1","-","1","5"," ","1","0",":","3","0",":","0","0">>}

\* rows of two columns, and short rows that lack the second
InferRows ==
    {<<c>> : c \in InferCells}
    \cup {<<c, <<"7">> >> : c \in {<<"1">>, <<"a","b","c">>}}

InitInfer ==
    /\ HandlerIdle
    /\ files = [f \in Paths |-> NoFile]
    /\ arg \in {[fn |-> "InferSchemaFromPreview", headers |-> HeaderIdName,
                  previewRows |-> rs] : rs \in SeqsUpTo(InferRows, MaxSampleRows)}
    /\ out = Pending

\* UploadCSV's preview: the schema suggested for the rows
Infer ==
    /\ arg.fn = "InferSchemaFromPreview"
    /\ out.state = "pending"
    /\ out' = [state |-> "returned",
               result |-> InferSchemaFromPreview(arg.headers, arg.previewRows)]
    /\ UNCHANGED <<arg, handlerVars>>

NextInfer == Infer

SpecInfer == InitInfer /\ [][NextInfer]_vars

\* the trimmed non-empty cells of a column of the preview rows
ColumnCells(rows, col) ==
    {TrimSpace(rows[i][col]) : i \in {k \in 1..Len(rows) : Len(rows[k]) >= col}} \ {<<>>}

\* C10 as the code has it: a column with a non-empty cell, all of whose
\* non-empty cells parse as 64-bit integers, is INTEGER, unless every one of
\* them is a boolean token (1 or 0): then it is BOOLEAN.
C10_IntegerUnlessBoolean ==
    (arg.fn = "InferSchemaFromPreview" /\ out.state = "returned") =>
        \A col \in 1..Len(arg.headers) :
            LET cells == ColumnCells(arg.previewRows, col)
            IN  (cells # {} /\ \A c \in cells : ParseIntOK(c)) =>
                    out.result[col].type =
                        IF \A c \in cells : ToLower(c) \in TrueTokens \cup FalseTokens
                        THEN TyBOOLEAN
                        ELSE TyINTEGER

\* the cells 1 and 7 made an INTEGER column
C10_Witness ==
    /\ arg.fn = "InferSchemaFromPreview"
    /\ out.state = "returned"
    /\ arg.previewRows = << <<<<"1">>>>, <<<<"7">>>> >>
    /\ out.result[1].type = TyINTEGER

\* C10 as it is written: a column with a non-empty cell, all of whose
\* non-empty cells parse as 64-bit integers, is INTEGER.
C10_AlwaysInteger ==
    (arg.fn = "InferSchemaFromPreview" /\ out.state = "returned") =>
        \A col \in 1..Len(arg.headers) :
            LET cells == ColumnCells(arg.previewRows, col)
            IN  (cells # {} /\ \A c \in cells : ParseIntOK(c)) =>
                    out.result[col].type = TyINTEGER

\* the cell passes none of the checks of the narrower types
FailsEveryCandidate(c) ==
    /\ ToLower(c) \notin TrueTokens \cup FalseTokens
    /\ ~ParseIntOK(c)
    /\ ~ParseFloatOK(c)
    /\ ~AnyLayout(tsLayouts, c)
    /\ ~AnyLayout(dateLayouts, c)

\* C11: a column with a non-empty cell that is no boolean token, no integer,
\* no float and matches no timestamp or date layout is TEXT, whatever its
\* other cells are and in whatever order the rows come.
C11_TextWhenACellFailsAll ==
    (arg.fn = "InferSchemaFromPreview" /\ out.state = "returned") =>
        \A col \in 1..Len(arg.headers) :
            (\E c \in ColumnCells(arg.previewRows, col) : FailsEveryCandidate(c)) =>
                out.result[col].type = TyTEXT

\* the cell abc after the cell 1 made a TEXT column
C11_Witness ==
    /\ arg.fn = "InferSchemaFromPreview"
    /\ out.state = "returned"
    /\ arg.previewRows = << <<<<"a","b","c">>>>, <<<<"1">>>> >>
    /\ out.result[1].type = TyTEXT

\* the reference rule: the first type, in the order BOOLEAN, INTEGER, REAL,
\* TIMESTAMP, DATE, whose check every cell of the set passes
ReferenceType(cells) ==
    IF cells = {} THEN TyTEXT
    ELSE IF \A c \in cells : ToLower(c) \in TrueTokens \cup FalseTokens THEN TyBOOLEAN
    ELSE IF \A c \in cells : ParseIntOK(c) THEN TyINTEGER
    ELSE IF \A c \in cells : ParseFloatOK(c) THEN TyREAL
    ELSE IF \A c \in cells : AnyLayout(tsLayouts, c) THEN TyTIMESTAMP
    ELSE IF \A c \in cells : AnyLayout(dateLayouts, c) THEN TyDATE
    ELSE TyTEXT

Reverse(s) == [i \in 1..Len(s) |-> s[Len(s) + 1 - i]]

\* C12: the inferred type of every column is the reference rule's type for
\* the set of its trimmed non-empty cells (empty cells and the cells short
\* rows lack do not count), each column keeps its header as its name, and
\* the rows in reverse order give the same schema.
C12_ReferenceRule ==
    (arg.fn = "InferSchemaFromPreview" /\ out.state = "returned") =>
        /\ Len(out.result) = Len(arg.headers)
        /\ \A col \in 1..Len(arg.headers) :
             /\ out.result[col].name = arg.headers[col]
             /\ out.result[col].type = ReferenceType(ColumnCells(arg.previewRows, col))
        /\ InferSchemaFromPreview(arg.headers, Reverse(arg.previewRows)) = out.result

\* the cells 1 and 3.5 made a REAL column
C12_Witness ==
    /\ arg.fn = "InferSchemaFromPreview"
    /\ out.state = "returned"
    /\ arg.previewRows = << <<<<"1">>>>, <<<<"3",".","5">>>> >>
    /\ out.result[1].type = TyREAL
    /\ out.result[2].type = TyTEXT

\* C25: a column inferred as BOOLEAN, INTEGER, REAL, DATE or TIMESTAMP has
\* only cells that the conversion of InsertData parses for a column declared
\* with that type: the same boolean tokens, and a layout of its own lists for
\* a date or a timestamp.
C25_InferenceAgreesWithCoercion ==
    (arg.fn = "InferSchemaFromPreview" /\ out.state = "returned") =>
        \A col \in 1..Len(arg.headers) :
            out.result[col].type \in {TyBOOLEAN, TyINTEGER, TyREAL, TyDATE, TyTIMESTAMP} =>
                \A c \in ColumnCells(arg.previewRows, col) :
                    ParsesAs(out.result[col].type, c)

\* C26: a cell that the inference takes as INTEGER and the conversion accepts
\* for a column declared INTEGER fits the column type that CreateTable
\* declares for INTEGER.
C26_IntegerFitsColumn ==
    (/\ arg.fn = "ConvertCell"
     /\ out.state = "returned"
     /\ arg.declaredType = TyINTEGER
     /\ InferredType(InferStep(InferStart, <<arg.valStr>>, 1)) = TyINTEGER
     /\ ~out.result.err)
    => StoreAccepts(mapToPostgresType(arg.declaredType), out.result.value)

\* ---- an upload and the read of its temp file by the commit

\* the largest number of data rows of an uploaded stream
MaxStreamRows == 82

\* the streams have lines of one form: so many cells of so many bytes
StreamShapes ==
    {[fields |-> 2, width |-> 1], [fields |-> 4, width |-> 19], [fields |-> 4, width |-> 24]}

StreamLine(shape) == [j \in 1..shape.fields |-> [k \in 1..shape.width |-> "x"]]

\* a stream whose first row is narrower than its header
RaggedStream ==
    << <<<<"a">>, <<"b">>>>, <<<<"1">>>>, <<<<"2">>, <<"3">>>> >>

\* the empty stream, a header with up to MaxStreamRows rows, and the ragged
\* stream
Streams ==
    {<<>>, RaggedStream}
    \cup {[i \in 1..(n + 1) |-> StreamLine(sh)] : n \in 0..MaxStreamRows,
                                                  sh \in StreamShapes}

TempPath == "f1"

InitUpload ==
    /\ HandlerIdle
    /\ files = [f \in Paths |-> NoFile]
    /\ arg \in {[fn |-> "ParseUploadedCSV", lines |-> l] : l \in Streams}
    /\ out = Pending

\* UploadCSV: ParseUploadedCSV leaves the temp file and returns the preview
Upload ==
    /\ arg.fn = "ParseUploadedCSV"
    /\ out.state = "pending"
    /\ LET r == ParseUploadedCSV(arg.lines)
       IN  /\ files' = [files EXCEPT ![TempPath] = r.temp]
           /\ out' = [state |-> IF r.err = "none" THEN "uploaded" ELSE "failed",
                      err |-> r.err, headers |-> r.headers, records |-> r.previewRows]
    /\ UNCHANGED <<arg, db, pc, req, columnDefs, allRecords, rowIdx, err, resp, tx,
                   cancelled, log>>

\* CommitCSV reads the whole temp file
ReadBack ==
    /\ arg.fn = "ParseUploadedCSV"
    /\ out.state = "uploaded"
    /\ LET r == ReadFullCSV(files[TempPath])
       IN  out' = [state |-> "read", err |-> r.err, headers |-> r.headers,
                   records |-> r.allRecords]
    /\ UNCHANGED <<arg, files, db, pc, req, columnDefs, allRecords, rowIdx, err, resp, tx,
                   cancelled, log>>

\* CommitCSV returns: the deferred os.Remove of the temp file runs
RemoveRead ==
    /\ arg.fn = "ParseUploadedCSV"
    /\ out.state = "read"
    /\ out' = [out EXCEPT !.state = "removed"]
    /\ files' = [files EXCEPT ![TempPath] = NoFile]
    /\ UNCHANGED <<arg, db, pc, req, columnDefs, allRecords, rowIdx, err, resp, tx,
                   cancelled, log>>

NextUpload == Upload \/ ReadBack \/ RemoveRead

SpecUpload == InitUpload /\ [][NextUpload]_vars

\* C6: after an upload the temp file holds every line of the stream, and the
\* commit reads from it every data row of the stream, also when there are
\* more than MaxPreviewSize of them.
C6_WholeFile ==
    (arg.fn = "ParseUploadedCSV" /\ arg.lines # <<>>) =>
        /\ out.state = "uploaded" => files[TempPath] = File(arg.lines)
        /\ out.state \in {"read", "removed"} =>
              (out.err = "none" /\ out.records = Tail(arg.lines))

\* ---- the column list of a commit

\* the largest number of columns of a posted form
MaxColumns == 2

\* names as the preview form posts them
PostedNames ==
    {<<"a"," ","b">>, <<"a","-","b">>, <<"A","_","B">>, <<"n","a","m","e">>, <<>>, <<"1","x">>, <<" ">>, <<"x">>}

InitColumns ==
    /\ HandlerIdle
    /\ files = [f \in Paths |-> NoFile]
    /\ arg \in {[fn |-> "BuildColumnDefs", columnNames |-> ns,
                  columnTypes |-> [i \in 1..Len(ns) |-> TyTEXT]] :
                    ns \in SeqsUpTo(PostedNames, MaxColumns) \ {<<>>}}
    /\ out = Pending

\* CommitCSV builds the column list it passes to CreateTable and InsertData
Columns ==
    /\ arg.fn = "BuildColumnDefs"
    /\ out.state = "pending"
    /\ out' = [state |-> "returned",
               result |-> BuildColumnDefs(arg.columnNames, arg.columnTypes)]
    /\ UNCHANGED <<arg, handlerVars>>

NextColumns == Columns

SpecColumns == InitColumns /\ [][NextColumns]_vars

\* C13: when the posted names are pairwise distinct, so are the names of the
\* column list the commit passes to CreateTable and InsertData, also when
\* two of the posted names sanitize to the same identifier.
C13_DistinctColumns ==
    (/\ arg.fn = "BuildColumnDefs"
     /\ out.state = "returned"
     /\ \A i, j \in 1..Len(arg.columnNames) :
            i # j => arg.columnNames[i] # arg.columnNames[j])
    => DistinctNames(out.result)

\* ---- the answers of the commit handler

\* the failures a user can correct
UserErrors ==
    {"data_conflict", "invalid_action", "csv_processing_error", "type_conversion_error"}

\* C18: a finished commit that failed on the user's input is answered with
\* the flash error, and one that failed in the database is answered with the
\* server error, also when the database refused the insert of a row.
C18_ResponseByKind ==
    \A p \in Procs :
        pc[p] = "done" =>
            /\ err[p] \in UserErrors => resp[p] = "flash_error"
            /\ err[p] = "database_error" => resp[p] = "server_error"

\* C19: a commit whose column list is not as long as the header of its file
\* ends with an error and leaves the database as it was, also when the file
\* has no data row.
C19_ColumnCountChecked ==
    [][\A p \in Procs :
        (/\ pc[p] # "idle"
         /\ req[p] # NoReq
         /\ files[req[p].tempFilePath].exists
         /\ Len(files[req[p].tempFilePath].lines) > 0
         /\ Len(req[p].columnNames) # Len(files[req[p].tempFilePath].lines[1]))
        => /\ db' = db
           /\ (pc'[p] = "done" /\ pc[p] # "done") => err'[p] # "none"]_vars

\* a file with a data row of another width than its header
Ragged(file) ==
    /\ file.exists
    /\ \E i \in 2..Len(file.lines) : Len(file.lines[i]) # Len(file.lines[1])

\* C20: a commit of a file with a data row of another width than the header
\* ends at the full read with csv_processing_error, before a transaction is
\* opened: no statement is executed and the database stays as it was.
C20_RaggedRowFatal ==
    [][\A p \in Procs :
        (/\ pc[p] = "idle"
         /\ pc'[p] # "idle"
         /\ err'[p] # "invalid_commit_data"
         /\ req'[p] # NoReq
         /\ Ragged(files[req'[p].tempFilePath]))
        => /\ pc'[p] = "remove"
           /\ err'[p] = "csv_processing_error"
           /\ resp'[p] = "flash_error"
           /\ tx'[p].status = "none"
           /\ log'[p] = <<>>
           /\ db' = db]_vars

\* two commits of the same file both ended at the full read, with no
\* transaction and no statement
C20_Witness ==
    \A p \in Procs :
        /\ pc[p] = "done"
        /\ err[p] = "csv_processing_error"
        /\ resp[p] = "flash_error"
        /\ tx[p].status = "none"
        /\ log[p] = <<>>
        /\ ~files[req[p].tempFilePath].exists

\* the request inserted rows and committed them
InsertedRows(p) ==
    /\ pc[p] = "done"
    /\ err[p] = "none"
    /\ \E i \in 1..Len(log[p]) : log[p][i] = "INSERT"

\* C21: of two append requests that name the same temp file, at most one
\* inserts the rows of the file into the table.
C21_ConsumedOnce ==
    \A p, q \in Procs :
        (/\ p # q
         /\ req[p].action = "append"
         /\ req[q].action = "append"
         /\ req[p].tempFilePath = req[q].tempFilePath
         /\ InsertedRows(p))
        => ~InsertedRows(q)

\* the statements of the request that change the catalog
DDL(p) == {i \in 1..Len(log[p]) : log[p][i] \in {"DROP", "CREATE"}}

\* C23: the commit of an Append executed no DDL, leaves the columns and the
\* rows the table had, in their order, and adds one row per data row of the
\* file, after them.
C23_AppendOnlyAdds ==
    [][\A p \in Procs :
        (/\ pc[p] = "commit"
         /\ tx'[p].status = "committed"
         /\ req[p].action = "append")
        => LET old == db[req[p].tableName]
               new == db'[req[p].tableName]
               n   == Len(allRecords[p])
           IN  /\ DDL(p) = {}
               /\ old.exists /\ new.exists
               /\ new.cols = old.cols
               /\ Len(new.rows) = Len(old.rows) + n
               /\ SubSeq(new.rows, 1, Len(old.rows)) = old.rows
               /\ \A i \in 1..n :
                    new.rows[Len(old.rows) + i] =
                        StoredRow(old.cols, columnDefs[p],
                                  ConvertRecord(columnDefs[p], allRecords[p][i], 1).values)]_vars

\* an Append of a file with data rows was committed to a table with rows
C23_Witness ==
    \E p \in Procs :
        /\ pc[p] = "done"
        /\ req[p].action = "append"
        /\ tx[p].status = "committed"
        /\ \E i \in 1..Len(log[p]) : log[p][i] = "INSERT"
        /\ Len(db[req[p].tableName].rows) > 1

\* C24: a request that has left the handler with a transaction begun has it
\* committed or rolled back, never open: committed exactly when the commit
\* succeeded, rolled back with the catalog untouched on every other path,
\* and a committed transaction is not rolled back afterwards.
C24_TxFinished ==
    [][\A p \in Procs :
        /\ (tx[p].status = "open" /\ tx'[p].status # "open") =>
              /\ tx'[p].status \in {"committed", "rolledback"}
              /\ tx'[p].status = "committed" <=>
                    (pc[p] = "commit" /\ err'[p] = "none" /\ db' = Committed(p))
              /\ tx'[p].status = "rolledback" => (err'[p] # "none" /\ db' = db)
        /\ tx[p].status = "committed" => tx'[p].status = "committed"
        /\ tx'[p].status = "open" => pc'[p] # "done"]_vars

\* one request ended by a panic after a statement and one ended by a
\* conflict, both with their transaction rolled back
C24_Witness ==
    \E p, q \in Procs :
        /\ pc[p] = "done" /\ err[p] = "panic" /\ resp[p] = "server_error"
        /\ log[p] # <<>> /\ tx[p].status = "rolledback"
        /\ pc[q] = "done" /\ err[q] = "data_conflict"
        /\ tx[q].status = "rolledback"

\* C27: when the handler has answered a commit request that names a temp
\* file, the file is gone, whatever the answer is.
C27_TempFileRemoved ==
    \A p \in Procs :
        (pc[p] = "done" /\ req[p].tempFilePath # "") =>
            ~files[req[p].tempFilePath].exists

\* ---- the sanitizer of identifiers

\* the largest length of the short raw names
MaxNameLen == 3

NameChars == {"a", "1", "_", " ", "-", "A", "!"}

Repeat(c, n) == [i \in 1..n |-> c]

\* names around the length limit: a run of letters, after a digit or not,
\* before an underscore or not
LongNames ==
    {pre \o Repeat("a", n) \o suf :
        pre \in {<<>>, <<"1">>},
        n \in (MaxIdentLen - 3)..(MaxIdentLen + 1),
        suf \in {<<>>, <<"_">>, <<"_","b">>, <<"_","b","_","c">>}}

RawNames == SeqsUpTo(NameChars, MaxNameLen) \cup LongNames

InitSanitize ==
    /\ HandlerIdle
    /\ files = [f \in Paths |-> NoFile]
    /\ arg \in {[fn |-> "SanitizeSQLName", name |-> x] : x \in RawNames}
    /\ out = Pending

\* a header or a posted name is sanitized
Sanitize ==
    /\ arg.fn = "SanitizeSQLName"
    /\ out.state = "pending"
    /\ out' = [state |-> "returned", result |-> SanitizeSQLName(arg.name)]
    /\ UNCHANGED <<arg, handlerVars>>

NextSanitize == Sanitize

SpecSanitize == InitSanitize /\ [][NextSanitize]_vars

\* C14: sanitizing is idempotent: the sanitized name of a sanitized name is
\* that name, also after the empty-name fallback, the underscore put before
\* a leading digit, and the cut at 63 bytes.
C14_Idempotent ==
    (arg.fn = "SanitizeSQLName" /\ out.state = "returned") =>
        SanitizeSQLName(out.result) = out.result

\* a long name that starts with a digit was prefixed and cut to the limit
C14_Witness ==
    /\ arg.fn = "SanitizeSQLName"
    /\ out.state = "returned"
    /\ Len(arg.name) > MaxIdentLen
    /\ arg.name[1] = "1"
    /\ out.result[1] = "_"
    /\ out.result[2] = "1"
    /\ Len(out.result) = MaxIdentLen

\* C15: the sanitized name is never empty, has at most 63 bytes, only
\* characters of a-z, 0-9 and underscore, no digit in front and no underscore
\* at its end.
C15_ValidIdentifier ==
    (arg.fn = "SanitizeSQLName" /\ out.state = "returned") =>
        /\ out.result # <<>>
        /\ Len(out.result) <= MaxIdentLen
        /\ \A i \in 1..Len(out.result) :
             out.result[i] \in LowerLetters \cup Digits \cup {"_"}
        /\ out.result[1] \notin Digits
        /\ out.result[Len(out.result)] # "_"

\* a long name was cut before an underscore, which was then dropped
C15_Witness ==
    /\ arg.fn = "SanitizeSQLName"
    /\ out.state = "returned"
    /\ Len(arg.name) > MaxIdentLen
    /\ arg.name[1] = "a"
    /\ arg.name[MaxIdentLen] = "_"
    /\ Len(out.result) = MaxIdentLen - 1

\* ---- the validation of a posted schema against a table

TyFLOAT8 == <<"F","L","O","A","T","8">>

TyDoublePrecision == <<"d","o","u","b","l","e"," ","p","r","e","c","i","s","i","o","n">>

TyVarchar == <<"v","a","r","c","h","a","r">>

\* repositories.isPostgresTypeCompatible
isPostgresTypeCompatible(csvPgType, dbPgType) ==
    LET dbt == ToLower(dbPgType)
        csv == ToLower(csvPgType)
    IN  IF csv = dbt THEN TRUE
        ELSE CASE csv = ToLower(TyINT) ->
                      dbt \in {ToLower(TyBIGINT), ToLower(TyNUMERIC), ToLower(TyFLOAT8)}
               [] csv = ToLower(TyFLOAT8) ->
                      dbt \in {ToLower(TyNUMERIC), TyDoublePrecision}
               [] csv = ToLower(TyDATE) ->
                      dbt \in {ToLower(TyTIMESTAMP), ToLower(TyPgTimestamp)}
               [] csv = ToLower(TyTEXT) ->
                      HasPrefix(dbt, TyVarchar) \/ dbt = ToLower(TyTEXT)
               [] OTHER -> FALSE

\* repositories.isCompatibleType
isCompatibleType(csvType, dbType) ==
    IF csvType = dbType THEN TRUE
    ELSE IF csvType = TyINTEGER /\ dbType = TyFLOAT THEN TRUE
    ELSE FALSE

\* the map from column name to data type that ValidateTable fills from the
\* catalog rows: a later row of the same name replaces an earlier one
dbColMap(dbCols, name) ==
    LET at == {i \in 1..Len(dbCols) : dbCols[i].name = name}
    IN  IF at = {} THEN [exists |-> FALSE, type |-> <<>>]
        ELSE [exists |-> TRUE,
              type |-> dbCols[CHOOSE i \in at : \A j \in at : j <= i].type]

\* repositories.ValidateTable, on the catalog rows of the table: the error it
\* returns, named after its message
ValidateTable(dbCols, csvHeaders) ==
    LET refused == {i \in 1..Len(csvHeaders) :
                       \/ ~dbColMap(dbCols, csvHeaders[i].name).exists
                       \/ ~isPostgresTypeCompatible(csvHeaders[i].type,
                               dbColMap(dbCols, csvHeaders[i].name).type)}
        first   == CHOOSE i \in refused : \A j \in refused : i <= j
    IN  IF Len(dbCols) = 0 THEN "table_missing"
        ELSE IF refused # {} THEN
            IF ~dbColMap(dbCols, csvHeaders[first].name).exists
            THEN "column_not_found" ELSE "type_mismatch"
        ELSE IF Len(csvHeaders) # Len(dbCols) THEN "column_count_mismatch"
        ELSE "none"

\* the largest number of columns of a validated CSV
MaxCsvColumns == 3

\* the largest number of columns of a validated table
MaxDbColumns == 2

ColumnNames == {<<"a">>, <<"b">>, <<"c">>}

CsvColumns == {[name |-> n, type |-> t] : n \in ColumnNames, t \in {TyINT, TyTEXT}}

DbColumns ==
    {[name |-> n, type |-> t] : n \in ColumnNames, t \in {ToLower(TyBIGINT), ToLower(TyTEXT)}}

\* the columns of a table have distinct names
DbColumnLists ==
    {cols \in SeqsUpTo(DbColumns, MaxDbColumns) :
        \A i, j \in 1..Len(cols) : i # j => cols[i].name # cols[j].name}

TypeNames ==
    {TyINT, TyINTEGER, TyBIGINT, TyNUMERIC, TyREAL, TyFLOAT, TyFLOAT8, TyDATE,
     TyTIMESTAMP, TyBOOLEAN, TyTEXT, ToLower(TyINTEGER), ToLower(TyBIGINT),
     TyDoublePrecision, ToLower(TyPgTimestamp), TyVarchar, ToLower(TyTEXT)}

InitValidate ==
    /\ HandlerIdle
    /\ files = [f \in Paths |-> NoFile]
    /\ arg \in {[fn |-> "ValidateTable", dbCols |-> d, csvHeaders |-> c] :
                    d \in DbColumnLists, c \in SeqsUpTo(CsvColumns, MaxCsvColumns)}
             \cup {[fn |-> f, csvType |-> c, dbType |-> d] :
                    f \in {"isPostgresTypeCompatible", "isCompatibleType"},
                    c \in TypeNames, d \in TypeNames}
    /\ out = Pending

\* a table is validated against the columns of a CSV
Validate ==
    /\ arg.fn = "ValidateTable"
    /\ out.state = "pending"
    /\ out' = [state |-> "returned", err |-> ValidateTable(arg.dbCols, arg.csvHeaders)]
    /\ UNCHANGED <<arg, handlerVars>>

\* two PostgreSQL type names are compared
PostgresTypeCompatible ==
    /\ arg.fn = "isPostgresTypeCompatible"
    /\ out.state = "pending"
    /\ out' = [state |-> "returned",
               ok |-> isPostgresTypeCompatible(arg.csvType, arg.dbType)]
    /\ UNCHANGED <<arg, handlerVars>>

\* two generalized type names are compared
CompatibleType ==
    /\ arg.fn = "isCompatibleType"
    /\ out.state = "pending"
    /\ out' = [state |-> "returned", ok |-> isCompatibleType(arg.csvType, arg.dbType)]
    /\ UNCHANGED <<arg, handlerVars>>

NextValidate == Validate \/ PostgresTypeCompatible \/ CompatibleType

SpecValidate == InitValidate /\ [][NextValidate]_vars

\* C16: when a CSV with pairwise distinct column names is validated against
\* an existing table with another number of columns, the validation fails
\* and the error is the column count mismatch.
C16_CountMismatchReported ==
    (/\ arg.fn = "ValidateTable"
     /\ out.state = "returned"
     /\ Len(arg.dbCols) > 0
     /\ \A i, j \in 1..Len(arg.csvHeaders) :
            i # j => arg.csvHeaders[i].name # arg.csvHeaders[j].name
     /\ Len(arg.csvHeaders) # Len(arg.dbCols))
    => out.err = "column_count_mismatch"

\* C17: the compatibility of types is directional: TEXT does not go into
\* INTEGER, INTEGER goes into BIGINT, NUMERIC does not go into INTEGER, and a
\* type goes into itself.
C17_Directional ==
    (arg.fn \in {"isPostgresTypeCompatible", "isCompatibleType"} /\ out.state = "returned") =>
        /\ (arg.csvType = TyTEXT /\ arg.dbType = TyINTEGER) => ~out.ok
        /\ (arg.csvType = TyINTEGER /\ arg.dbType = TyBIGINT) => out.ok
        /\ (arg.csvType = TyNUMERIC /\ arg.dbType = TyINTEGER) => ~out.ok
        /\ (arg.csvType = arg.dbType) => out.ok

\* ---- the service-layer commit: service.CommitCSV on the repository calls

\* services.sanitizeColumnName
sanitizeColumnName(name) ==
    LET t == TrimSpace(name)
        u == ToLower([i \in 1..Len(t) |-> IF t[i] = " " THEN "_" ELSE t[i]])
    IN  IF u = <<>> THEN <<"c","o","l","u","m","n">> ELSE u

\* the switch of inferDataTypes on the current type of the column, for one
\* cell: TEXT is both the start and the type of a column that failed
inferCell(currentType, val) ==
    IF val = <<>> THEN currentType
    ELSE CASE currentType = TyTEXT ->
                IF ParseIntOK(val) THEN TyINTEGER
                ELSE IF ParseFloatOK(val) THEN TyFLOAT
                ELSE IF AnyLayout(<<LayoutISODate>>, val) THEN TyDATE
                ELSE IF ToLower(val) \in {<<"t","r","u","e">>, <<"f","a","l","s","e">>}
                THEN TyBOOLEAN
                ELSE TyTEXT
           [] currentType = TyINTEGER ->
                IF ParseIntOK(val) THEN TyINTEGER
                ELSE IF ParseFloatOK(val) THEN TyFLOAT
                ELSE TyTEXT
           [] currentType = TyFLOAT -> IF ParseFloatOK(val) THEN TyFLOAT ELSE TyTEXT
           [] currentType = TyDATE ->
                IF AnyLayout(<<LayoutISODate>>, val) THEN TyDATE ELSE TyTEXT
           [] currentType = TyBOOLEAN ->
                IF ToLower(val) \in {<<"t","r","u","e">>, <<"f","a","l","s","e">>}
                THEN TyBOOLEAN
                ELSE TyTEXT
           [] OTHER -> currentType

RECURSIVE inferColumn(_, _, _, _, _)
\* the row loop of inferDataTypes for the column i, from the row k on
inferColumn(currentType, rows, k, i, width) ==
    IF k > Len(rows) THEN currentType
    ELSE IF Len(rows[k]) # width THEN inferColumn(currentType, rows, k + 1, i, width)
    ELSE inferColumn(inferCell(currentType, rows[k][i]), rows, k + 1, i, width)

\* services.inferDataTypes
inferDataTypes(headers, rows) ==
    [i \in 1..Len(headers) |->
        [name |-> sanitizeColumnName(headers[i]),
         type |-> inferColumn(TyTEXT, rows, 1, i, Len(headers))]]

\* services.mapInferredTypeToPostgres
mapInferredTypeToPostgres(inferredType) ==
    CASE inferredType = TyINTEGER -> TyINT
      [] inferredType = TyFLOAT -> TyFLOAT8
      [] inferredType = TyBOOLEAN -> TyBOOLEAN
      [] inferredType = TyDATE -> TyDATE
      [] OTHER -> TyTEXT

\* service.ParseCSV with maxRows = -1: every row, each as wide as the header
ParseCSV(lines) ==
    IF lines = <<>> THEN [err |-> "parse", headers |-> <<>>, rows |-> <<>>]
    ELSE IF \E k \in 2..Len(lines) : Len(lines[k]) # Len(lines[1])
    THEN [err |-> "parse", headers |-> <<>>, rows |-> <<>>]
    ELSE [err |-> "none", headers |-> inferDataTypes(lines[1], Tail(lines)),
          rows |-> Tail(lines)]

\* the data_type that information_schema.columns reports for a column
\* created with the type name
CatalogType(ddlType) ==
    CASE ddlType = TyINT -> ToLower(TyINTEGER)
      [] ddlType = TyFLOAT8 -> TyDoublePrecision
      [] OTHER -> ToLower(ddlType)

\* the catalog rows of a table, as ValidateTable selects them
CatalogColumns(table) ==
    [i \in 1..Len(table.cols) |->
        [name |-> table.cols[i].name, type |-> CatalogType(table.cols[i].type)]]

\* the server takes the text parameter of an INSERT for a column of the type
ParameterAccepted(ddlType, text) ==
    CASE ddlType = TyINT -> TextAccepted(TyINTEGER, text)
      [] ddlType = TyFLOAT8 -> TextAccepted(TyREAL, text)
      [] OTHER -> TextAccepted(ddlType, text)

\* strings.ReplaceAll(name, `"`, ""), applied by CreateTable, TruncateTable
\* and InsertData to the table name and to the column names
StripQuotes(name) == SelectSeq(name, LAMBDA c : c # "\"")

\* the table of the name in the catalog: the server has no table of another
\* name, and none of the empty name
Catalog(name) == IF name \in TableNames THEN db[name] ELSE NoTable

\* the column list of CreateTable and of the INSERT of InsertData: the names
\* without their quotes
QuotedColumns(columns) ==
    [i \in 1..Len(columns) |-> [columns[i] EXCEPT !.name = StripQuotes(@)]]

\* the headers InsertData is given, as columns of its INSERT
InsertColumns(headers) == [i \in 1..Len(headers) |-> [name |-> StripQuotes(headers[i])]]

\* the DDL type of the column of the name
ColumnType(cols, name) == cols[CHOOSE i \in 1..Len(cols) : cols[i].name = name].type

\* stmt.ExecContext(ctx, args...) with the cells of the row as parameters:
\* value i is for the column named by header i
ServiceRowAccepted(cols, columns, row) ==
    \A i \in 1..Len(columns) :
        ParameterAccepted(ColumnType(cols, columns[i].name), row[i])

\* the row the INSERT adds: every named column takes its parameter, the
\* others NULL
ServiceStoredRow(cols, columns, row) ==
    StoredRow(cols, columns, [i \in 1..Len(row) |-> [kind |-> "string", v |-> row[i]]])

\* the largest number of data rows of a CSV committed through the service
MaxServiceRows == 2

HeaderN == << <<"N">> >>

HeaderBA == << <<"b">>, <<"a">> >>

CellAbc == <<"a","b","c">>

QuotedPeople == <<"\"">> \o PeopleTable

ServiceTables ==
    {NoTable,
     Table(<<[name |-> <<"n">>, type |-> TyINT]>>,
           << <<[kind |-> "string", v |-> <<"7">>]>> >>),
     Table(<<[name |-> <<"n">>, type |-> TyTEXT]>>,
           << <<[kind |-> "string", v |-> CellX]>> >>),
     Table(<<[name |-> <<"a">>, type |-> TyTEXT], [name |-> <<"b">>, type |-> TyTEXT]>>, <<>>),
     Table(<<[name |-> <<"a">>, type |-> TyBIGINT], [name |-> <<"b">>, type |-> TyTEXT]>>,
           <<>>)}

\* the CSVs committed through the service: one column with up to
\* MaxServiceRows cells, two columns named in another order than the table's,
\* and a reader without a header
ServiceCsvs ==
    {<<HeaderN>> \o rs : rs \in SeqsUpTo({<<CellOne>>, <<CellAbc>>}, MaxServiceRows)}
    \cup {<<HeaderBA, <<CellX, CellOne>> >>, <<HeaderBA, <<CellX, CellAbc>> >>, <<>>}

Call(fn, tableName, action, lines) ==
    [fn |-> fn, tableName |-> tableName, action |-> action, lines |-> lines]

\* the calls: service.CommitCSV(ctx, req, r) with the CSV behind r, and
\* repository.InsertData(ctx, tableName, headers, rows) with the headers and
\* the rows as the lines
ServiceCalls ==
    {Call("service.CommitCSV", PeopleTable, a, csv) : a \in Actions, csv \in ServiceCsvs}
    \cup {Call("service.CommitCSV", <<>>, a, <<HeaderN, <<CellOne>> >>) :
            a \in {"create", "append"}}
    \cup {Call("repository.InsertData", <<>>, "", <<HeaderN, <<CellOne>> >>),
          Call("repository.InsertData", PeopleTable, "", << <<>>, <<CellOne>> >>),
          Call("repository.InsertData", PeopleTable, "", << <<<<"a">>>>, <<CellOne>> >>),
          Call("repository.InsertData", QuotedPeople, "",
               << <<<<"\"", "n">>>>, <<CellOne, CellX>>, <<CellOne>> >>)}

\* a call before its first step: CommitCSV has still to parse, InsertData
\* has its headers and rows
Called(c) ==
    IF c.fn = "repository.InsertData"
    THEN [state |-> "insert", err |-> "none", headers |-> <<>>, dbHeaders |-> <<>>,
          names |-> c.lines[1], rows |-> Tail(c.lines), idx |-> 0, txrows |-> <<>>,
          lock |-> FALSE]
    ELSE [state |-> "pending", err |-> "none", headers |-> <<>>, dbHeaders |-> <<>>,
          names |-> <<>>, rows |-> <<>>, idx |-> 0, txrows |-> <<>>, lock |-> FALSE]

InitService ==
    /\ db \in [TableNames -> ServiceTables]
    /\ files = [f \in Paths |-> NoFile]
    /\ pc = [p \in Procs |-> "idle"]
    /\ req = [p \in Procs |-> NoReq]
    /\ columnDefs = [p \in Procs |-> <<>>]
    /\ allRecords = [p \in Procs |-> <<>>]
    /\ rowIdx = [p \in Procs |-> 0]
    /\ err = [p \in Procs |-> "none"]
    /\ resp = [p \in Procs |-> "none"]
    /\ tx = [p \in Procs |-> NoTx]
    /\ cancelled = [p \in Procs |-> FALSE]
    /\ log = [p \in Procs |-> <<>>]
    /\ \E calls \in [Procs -> ServiceCalls] :
        /\ arg = [fn |-> "service", calls |-> calls, before |-> db]
        /\ out = [p \in Procs |-> Called(calls[p])]

serviceFrame ==
    <<files, pc, req, columnDefs, allRecords, rowIdx, err, resp, tx, cancelled, log, arg>>

\* the call returns the error
ServiceFailed(p, code) ==
    out' = [out EXCEPT ![p].state = "failed", ![p].err = code, ![p].txrows = <<>>,
                       ![p].lock = FALSE]

\* the call goes on with the step
ServiceGoes(p, state) == out' = [out EXCEPT ![p].state = state]

\* another call's transaction holds its lock on the table
ServiceOtherLock(p) ==
    \E q \in Procs \ {p} :
        /\ out[q].lock
        /\ StripQuotes(arg.calls[q].tableName) = StripQuotes(arg.calls[p].tableName)

\* CommitCSV parses the whole CSV and maps the inferred types
ServiceParseCSV(p) ==
    /\ arg.fn = "service"
    /\ out[p].state = "pending"
    /\ LET data == ParseCSV(arg.calls[p].lines)
       IN  IF data.err # "none"
           THEN ServiceFailed(p, data.err)
           ELSE out' = [out EXCEPT
                          ![p].state = "parsed",
                          ![p].headers = data.headers,
                          ![p].dbHeaders =
                              [i \in 1..Len(data.headers) |->
                                  [name |-> data.headers[i].name,
                                   type |-> mapInferredTypeToPostgres(data.headers[i].type)]],
                          ![p].names = [i \in 1..Len(data.headers) |-> data.headers[i].name],
                          ![p].rows = data.rows]
    /\ UNCHANGED <<db, serviceFrame>>

\* the server takes CREATE TABLE: no table of the name, every column named
\* once and by a name that is not empty
CreateAccepted(tableName, cols) ==
    /\ tableName \in TableNames
    /\ ~db[tableName].exists
    /\ DistinctNames(cols)
    /\ \A i \in 1..Len(cols) : cols[i].name # <<>>

\* case "create": repository.CreateTable, one statement on the pool,
\* committed on its own
ServiceCreateTable(p) ==
    /\ arg.fn = "service"
    /\ out[p].state = "parsed"
    /\ arg.calls[p].action = "create"
    /\ LET tableName == StripQuotes(arg.calls[p].tableName)
           cols      == QuotedColumns(out[p].dbHeaders)
       IN  IF arg.calls[p].tableName = <<>>
           THEN ServiceFailed(p, "create") /\ UNCHANGED db
           ELSE \E fails \in BOOLEAN :
                   IF fails \/ ~CreateAccepted(tableName, cols)
                   THEN ServiceFailed(p, "create") /\ UNCHANGED db
                   ELSE /\ db' = [db EXCEPT ![tableName] = Table(cols, <<>>)]
                        /\ ServiceGoes(p, "insert")
    /\ UNCHANGED serviceFrame

\* case "overwrite", "append": repository.ValidateTable, one SELECT on the
\* pool; an overwrite has still to truncate the table
ServiceValidateTable(p) ==
    /\ arg.fn = "service"
    /\ out[p].state = "parsed"
    /\ arg.calls[p].action \in {"overwrite", "append"}
    /\ \E fails \in BOOLEAN :
        IF \/ fails
           \/ ValidateTable(CatalogColumns(Catalog(arg.calls[p].tableName)),
                            out[p].dbHeaders) # "none"
        THEN ServiceFailed(p, "validate")
        ELSE ServiceGoes(p, IF arg.calls[p].action = "overwrite" THEN "truncate"
                            ELSE "insert")
    /\ UNCHANGED <<db, serviceFrame>>

\* repository.TruncateTable after the validation of an overwrite: one
\* statement on the pool, committed on its own; it waits for the lock of
\* another call's transaction on the table
ServiceTruncateTable(p) ==
    /\ arg.fn = "service"
    /\ out[p].state = "truncate"
    /\ LET tableName == StripQuotes(arg.calls[p].tableName)
       IN  IF arg.calls[p].tableName = <<>>
           THEN ServiceFailed(p, "truncate") /\ UNCHANGED db
           ELSE \/ ServiceFailed(p, "truncate") /\ UNCHANGED db
                \/ /\ Catalog(tableName).exists
                   /\ ~ServiceOtherLock(p)
                   /\ db' = [db EXCEPT ![tableName].rows = <<>>]
                   /\ ServiceGoes(p, "insert")
    /\ UNCHANGED serviceFrame

\* default: the action is none of the three
ServiceInvalidAction(p) ==
    /\ arg.fn = "service"
    /\ out[p].state = "parsed"
    /\ arg.calls[p].action \notin {"create", "overwrite", "append"}
    /\ ServiceFailed(p, "invalid_action")
    /\ UNCHANGED <<db, serviceFrame>>

\* repository.InsertData up to r.db.BeginTxx: the empty table name is an
\* error, no header or no row is nothing to do, else the transaction begins
ServiceInsertData(p) ==
    /\ arg.fn = "service"
    /\ out[p].state = "insert"
    /\ IF arg.calls[p].tableName = <<>>
       THEN ServiceFailed(p, "insert")
       ELSE IF Len(out[p].names) = 0 \/ Len(out[p].rows) = 0
       THEN ServiceGoes(p, "done")
       ELSE \/ ServiceGoes(p, "prepare")
            \/ ServiceFailed(p, "insert")
    /\ UNCHANGED <<db, serviceFrame>>

\* tx.PreparexContext of the INSERT that lists the headers; the transaction
\* holds a lock on the table from here on, and the deferred tx.Rollback
\* follows a failure
ServicePrepare(p) ==
    /\ arg.fn = "service"
    /\ out[p].state = "prepare"
    /\ \E fails \in BOOLEAN :
        IF \/ fails
           \/ ~PrepareAccepted(Catalog(StripQuotes(arg.calls[p].tableName)),
                               InsertColumns(out[p].names))
        THEN ServiceGoes(p, "rollback")
        ELSE out' = [out EXCEPT ![p].state = "row", ![p].idx = 1, ![p].lock = TRUE]
    /\ UNCHANGED <<db, serviceFrame>>

\* one pass of InsertData's loop: a row of another width than the headers is
\* skipped, else the prepared INSERT is executed with its cells
ServiceExecRow(p) ==
    /\ arg.fn = "service"
    /\ out[p].state = "row"
    /\ LET row     == out[p].rows[out[p].idx]
           cols    == Catalog(StripQuotes(arg.calls[p].tableName)).cols
           columns == InsertColumns(out[p].names)
           next    == IF out[p].idx = Len(out[p].rows) THEN "commit" ELSE "row"
       IN  IF Len(row) # Len(out[p].names)
           THEN out' = [out EXCEPT ![p].state = next, ![p].idx = @ + 1]
           ELSE \E fails \in BOOLEAN :
                   IF fails \/ ~ServiceRowAccepted(cols, columns, row)
                   THEN ServiceGoes(p, "rollback")
                   ELSE out' = [out EXCEPT
                                  ![p].state = next,
                                  ![p].idx = @ + 1,
                                  ![p].txrows =
                                      Append(@, ServiceStoredRow(cols, columns, row))]
    /\ UNCHANGED <<db, serviceFrame>>

\* tx.Commit(): the rows of the transaction are in the table, or none is
ServiceCommit(p) ==
    /\ arg.fn = "service"
    /\ out[p].state = "commit"
    /\ \/ /\ db' = [db EXCEPT ![StripQuotes(arg.calls[p].tableName)].rows =
                                  @ \o out[p].txrows]
          /\ out' = [out EXCEPT ![p].state = "done", ![p].txrows = <<>>, ![p].lock = FALSE]
       \/ /\ ServiceFailed(p, "insert")
          /\ UNCHANGED db
    /\ UNCHANGED serviceFrame

\* the deferred tx.Rollback() of InsertData after a failed PREPARE or
\* EXECUTE, and the return of the error
ServiceRollback(p) ==
    /\ arg.fn = "service"
    /\ out[p].state = "rollback"
    /\ ServiceFailed(p, "insert")
    /\ UNCHANGED <<db, serviceFrame>>

NextService ==
    \E p \in Procs :
        \/ ServiceParseCSV(p)
        \/ ServiceCreateTable(p)
        \/ ServiceValidateTable(p)
        \/ ServiceTruncateTable(p)
        \/ ServiceInvalidAction(p)
        \/ ServiceInsertData(p)
        \/ ServicePrepare(p)
        \/ ServiceExecRow(p)
        \/ ServiceCommit(p)
        \/ ServiceRollback(p)

SpecService == InitService /\ [][NextService]_vars

\* the other calls have not taken a step
ServiceAlone(p) == \A q \in Procs \ {p} : out[q] = Called(arg.calls[q])

\* C28: when InsertData fails in a commit through the service that ran
\* alone, the table is as it was before the commit: a create leaves no table,
\* an overwrite leaves the rows the table had.
C28_ServiceAtomic ==
    \A p \in Procs :
        (/\ arg.fn = "service"
         /\ arg.calls[p].fn = "service.CommitCSV"
         /\ out[p].state = "failed"
         /\ out[p].err = "insert"
         /\ ServiceAlone(p))
        => db = arg.before

\* a cell that is no integer, no float, no date and no boolean for
\* inferDataTypes
FailsEveryNarrowType(val) ==
    /\ val # <<>>
    /\ ~ParseIntOK(val)
    /\ ~ParseFloatOK(val)
    /\ ~AnyLayout(<<LayoutISODate>>, val)
    /\ ToLower(val) \notin {<<"t","r","u","e">>, <<"f","a","l","s","e">>}

\* C29: a column with a cell that is no integer, no float, no date and no
\* boolean is TEXT for inferDataTypes, wherever the cell stands among the
\* rows.
C29_IncrementalText ==
    \A p \in Procs :
        (arg.fn = "service" /\ arg.calls[p].fn = "service.CommitCSV") =>
            \A i \in 1..Len(out[p].headers) :
                (\E k \in 1..Len(out[p].rows) : FailsEveryNarrowType(out[p].rows[k][i])) =>
                    out[p].headers[i].type = TyTEXT

\* C30: after a create from the inferred columns, the validation of the same
\* columns against the created table, with the types its catalog reports,
\* succeeds.
C30_CreateThenValidate ==
    \A p \in Procs :
        (/\ arg.fn = "service"
         /\ arg.calls[p].fn = "service.CommitCSV"
         /\ arg.calls[p].action = "create"
         /\ out[p].state \notin {"pending", "parsed"}
         /\ out[p].err \notin {"parse", "create"})
        => ValidateTable(CatalogColumns(Catalog(arg.calls[p].tableName)),
                         out[p].dbHeaders) = "none"

====
